---- MODULE Spec2Model ----
(***************************************************************************)
(* Model of the due-date extractor of syllabus-backend/app/extractor_core  *)
(* (extract_due_dates_from_pdf and the helpers it calls).                   *)
(*                                                                         *)
(* Encoding of the Python values:                                          *)
(*   - a line (or a table cell, a title) is the sequence of its words, as  *)
(*     _page_text_lines leaves it: words separated by single spaces; the   *)
(*     vertical bar is a word of its own;                                  *)
(*   - a date token "Sep 4" is the word sequence <<"Sep", "4">>, the empty *)
(*     string and a None token are <<>> (the code only tests truthiness);  *)
(*   - an ISO date "2025-09-04" is <<2025, 9, 4>>: the zero-padded string  *)
(*     order is the lexicographic order of the triple; "" is <<>>; the     *)
(*     None returned by _parse_to_iso is NoneIso;                          *)
(*   - a None year hint is 0, a None line index is -1.                     *)
(***************************************************************************)
EXTENDS Integers, Sequences, FiniteSets, TLC

VARIABLES
    doc,                 \* the PDF being processed: [meta, pages]
    pc,                  \* position in extract_due_dates_from_pdf
    p,                   \* page loop index (0-based, as in the code)
    lines,               \* lines of the page being scanned
    i,                   \* line loop index of pass 1 (0-based)
    year_hints,          \* year_hints list
    year_hint,           \* the hint handed to _scan_page for this page
    last_dated_token,    \* _scan_page locals
    last_dated_iso,
    last_dated_line_ix,
    out,                 \* _scan_page's out list
    out_line,            \* history: for each element of out, the line index that produced it
    hints_used,          \* history: the hint handed to _scan_page, per page scanned
    items,               \* items list of extract_due_dates_from_pdf
    raw_items,          \* history: the items list as it was handed to _dedupe_items
    result,              \* the returned dict
    run,                 \* number of the processing call within the process
    first,               \* history: input and result of the first processing call
    ed_items,            \* confirmationEdits: the list the caller passes in
    ed_op,               \* history: the last edit call and the list as it was before it
    ed_out,              \* what the last edit call gave back: [status, items]
    rp_pc,               \* llm_repair: position in repair_due_items
    rp_env,              \* GEMINI_API_KEY set, SDK importable, GEMINI_MODEL
    rp_seed,             \* the seed_items argument: [given, items]
    rp_call,             \* history: how generate_content ended
    rp_raw,              \* raw_text of the response
    rp_ret,              \* the returned dict: [items, error], raised if it raised
    tb_pc,               \* main.py: position in the processing of a table row
    row,                 \* the row: a sequence of cells
    cell_idx,            \* cell loop index (0-based)
    row_month,           \* month found in the row, "" for None
    row_dates,           \* cell index -> date text found in the cell
    current_month,       \* month carried across rows and pages, "" for None
    all_assignments,     \* the entries added for the row
    tx_pc,               \* the text helpers applied to one raw line: position
    tx_line,             \* the raw line
    tx_token,            \* what _extract_month_day_token returned
    tx_parts,            \* what _split_schedule_row returned
    seen_pdf_hashes,     \* app.py: _seen_pdf_hashes
    up_pc,               \* upload request -> position in the handler
    up_data,             \* upload request -> the bytes it carries
    up_resp,             \* upload request -> HTTP status answered, 0 before
    up_extracted         \* history: hashes handed to the extractor, in order

coreVars == <<doc, pc, p, lines, i, year_hints, year_hint, last_dated_token,
          last_dated_iso, last_dated_line_ix, out, out_line, hints_used,
          items, raw_items, result, run, first>>

editVars == <<ed_items, ed_op, ed_out>>

repairVars == <<rp_pc, rp_env, rp_seed, rp_call, rp_raw, rp_ret>>

tableVars == <<tb_pc, row, cell_idx, row_month, row_dates, current_month,
               all_assignments>>

textVars == <<tx_pc, tx_line, tx_token, tx_parts>>

uploadVars == <<seen_pdf_hashes, up_pc, up_data, up_resp, up_extracted>>

lateVars == <<textVars, uploadVars>>

extVars == <<editVars, repairVars, tableVars, lateVars>>

vars == <<coreVars, extVars>>

(* the components outside the extractor, at rest *)
NoEdit == [name |-> "", index |-> 0, before |-> <<>>]

NoOutcome == [status |-> 0, items |-> <<>>]

EditsIdle == ed_items = <<>> /\ ed_op = NoEdit /\ ed_out = NoOutcome

(* Python's None where a string is expected *)
NoneStr == "<None>"

NoText == [fenced |-> FALSE, body |-> [t |-> "empty"]]

NoReturn == [items |-> <<>>, error |-> NoneStr, raised |-> FALSE]

RepairIdle ==
    /\ rp_pc = "idle"
    /\ rp_env = [key |-> FALSE, sdk |-> FALSE, model |-> "unset"]
    /\ rp_seed = [given |-> FALSE, items |-> <<>>]
    /\ rp_call = ""
    /\ rp_raw = NoText
    /\ rp_ret = NoReturn

TableIdle ==
    /\ tb_pc = "idle"
    /\ row = <<>>
    /\ cell_idx = 0
    /\ row_month = ""
    /\ row_dates = <<>>
    /\ current_month = ""
    /\ all_assignments = <<>>

TextIdle == tx_pc = "idle" /\ tx_line = <<>> /\ tx_token = <<>> /\ tx_parts = <<>>

UploadIdle ==
    /\ seen_pdf_hashes = {}
    /\ up_pc = <<>>
    /\ up_data = <<>>
    /\ up_resp = <<>>
    /\ up_extracted = <<>>

LateIdle == TextIdle /\ UploadIdle

ExtIdle == EditsIdle /\ RepairIdle /\ TableIdle /\ LateIdle

----------------------------------------------------------------------------
(* Bounds of the explored inputs *)

MaxLines == 5        \* lines of a one-page document (window cases)
MaxPages == 2        \* pages of a multi-page document
MaxPageLines == 1    \* lines per page of a multi-page document
MaxShort == 2        \* lines of a one-page document over the full line set
MaxRuns == 3         \* processing calls made by one process
MaxRerunLines == 2   \* lines of the documents that are processed repeatedly
MaxContext == 4      \* lines of a one-page document over the context line set

(* datetime.now().year, read when no year hint exists *)
CurrentYear == 2026

----------------------------------------------------------------------------
(* Small helpers *)

Min(S) == CHOOSE x \in S : \A y \in S : x <= y

Max(S) == CHOOSE x \in S : \A y \in S : x >= y

SeqsUpTo(S, n) == UNION {[1..k -> S] : k \in 0..n}

NoneIso == <<0>>

Truthy(v) == v # <<>> /\ v # NoneIso

----------------------------------------------------------------------------
(* Words and the regular expressions over them *)

(* group 1 of MONTH_DAY_RE: the month names of the vocabulary *)
IsMonthWord(w) == w \in {"Sep", "Oct"}

MonthNumber(w) == CASE w = "Sep" -> 9 [] w = "Oct" -> 10 [] OTHER -> 0

(* a run of two or more spaces inside a raw line is a word of its own *)
Gap == "  "

(* (\d{1,2})(?:st|nd|rd|th)?\b at the start of the word: one or two digits,
   optional ordinal suffix; the "9" of "9/15" ends at a word boundary too *)
IsDayWord(w) == w \in {"1", "2", "4th", "45", "9/15", "9-15"}

(* group 2 of MONTH_DAY_RE: the digits without the suffix *)
DayDigits(w) == CASE w = "4th" -> "4" [] w = "9/15" -> "9" [] w = "9-15" -> "9"
                  [] OTHER -> w

DayValue(d) == CASE d = "1" -> 1 [] d = "2" -> 2 [] d = "4" -> 4 [] d = "9" -> 9
                 [] d = "45" -> 45 [] OTHER -> 0

(* NUMERIC_DATE_RE: month 1..12, "/" or "-", day 0..31 *)
IsNumericWord(w) == w \in {"9/15", "9-15"}

(* f"{m2.group(1)}/{m2.group(2)}" *)
NumericToken(w) == CASE w = "9-15" -> "9/15" [] OTHER -> w

NumericMonth(t) == CASE t = "9/15" -> 9 [] OTHER -> 0

NumericDay(t) == CASE t = "9/15" -> 15 [] OTHER -> 0

(* str.lower() on a word *)
LowerWord(w) == CASE w = "Quiz" -> "quiz" [] w = "HW1" -> "hw1"
                  [] w = "Notes" -> "notes" [] w = "Sep" -> "sep"
                  [] w = "Oct" -> "oct"
                  [] OTHER -> w

Lower(s) == [k \in DOMAIN s |-> LowerWord(s[k])]

(* ASSIGNMENT_RE, (?i): quiz, hw\d+ *)
IsAssignmentWord(w) == LowerWord(w) \in {"quiz", "hw1"}

(* \b(20\d{2}|19\d{2})\b *)
IsYearWord(w) == w \in {"2024", "2025"}

YearValue(w) == CASE w = "2024" -> 2024 [] w = "2025" -> 2025 [] OTHER -> 0

(* the words in code point order: digits, "/", capitals, small letters, "|" *)
CodePointOrder == <<"1", "2", "2024", "2025", "45", "4th", "9-15", "9/15",
                    "HW1", "Notes", "Oct", "Quiz", "Sep",
                    "due", "hw1", "notes", "oct", "on", "quiz", "sep", "|">>

WordRank(w) == CHOOSE k \in DOMAIN CodePointOrder : CodePointOrder[k] = w

(* Python's < on two strings given as word sequences *)
RECURSIVE StrLess(_, _)
StrLess(a, b) ==
    IF b = <<>> THEN FALSE
    ELSE IF a = <<>> THEN TRUE
    ELSE IF Head(a) = Head(b) THEN StrLess(Tail(a), Tail(b))
    ELSE WordRank(Head(a)) < WordRank(Head(b))

----------------------------------------------------------------------------
(* Year guessing *)

(* Counter(candidates): the distinct years in first-insertion order *)
RECURSIVE FirstSeenOrder(_)
FirstSeenOrder(c) ==
    IF c = <<>> THEN <<>>
    ELSE LET r == FirstSeenOrder(SubSeq(c, 1, Len(c) - 1))
             y == c[Len(c)]
         IN IF \E k \in DOMAIN r : r[k] = y THEN r ELSE Append(r, y)

Count(c, y) == Cardinality({k \in DOMAIN c : c[k] = y})

(* counts.most_common(1)[0]: max() by count over the counter's items, which
   keeps the first item met among those of equal count *)
MostCommon(c) ==
    LET order == FirstSeenOrder(c)
        best == Max({Count(c, order[k]) : k \in DOMAIN order})
        k0 == Min({k \in DOMAIN order : Count(c, order[k]) = best})
    IN order[k0]

pick_reasonable_year(candidates) ==
    IF candidates = <<>> THEN 0 ELSE MostCommon(candidates)

(* the year literals of a page, one per line that holds one (its first) *)
FirstYearOf(ln) ==
    LET ks == {k \in DOMAIN ln : IsYearWord(ln[k])}
    IN IF ks = {} THEN <<>> ELSE <<YearValue(ln[Min(ks)])>>

RECURSIVE PageYearLiterals(_)
PageYearLiterals(lns) ==
    IF lns = <<>> THEN <<>>
    ELSE FirstYearOf(Head(lns)) \o PageYearLiterals(Tail(lns))

----------------------------------------------------------------------------
(* Date parsing *)

(* [\s\.]* : the word after position k, past a run of spaces *)
WordAfter(s, k) == IF k + 1 <= Len(s) /\ s[k + 1] = Gap THEN k + 2 ELSE k + 1

MonthDayAt(s, k) ==
    /\ IsMonthWord(s[k])
    /\ WordAfter(s, k) <= Len(s)
    /\ IsDayWord(s[WordAfter(s, k)])

(* the recognizer that returns the leftmost match of either pattern *)
extract_month_day_token_Leftmost(s) ==
    LET md == {k \in DOMAIN s : MonthDayAt(s, k)}
        nm == {k \in DOMAIN s : IsNumericWord(s[k])}
    IN IF md # {} /\ (nm = {} \/ Min(md) < Min(nm))
       THEN <<s[Min(md)], DayDigits(s[WordAfter(s, Min(md))])>>
       ELSE IF nm # {} THEN <<NumericToken(s[Min(nm)])>>
       ELSE <<>>

(* lines 128-141 *)
extract_month_day_token(s) ==
    LET md == {k \in DOMAIN s : MonthDayAt(s, k)}
        nm == {k \in DOMAIN s : IsNumericWord(s[k])}
    IN IF md # {} THEN <<s[Min(md)], DayDigits(s[WordAfter(s, Min(md))])>>
       ELSE IF nm # {} THEN <<NumericToken(s[Min(nm)])>>
       ELSE <<>>

IsLeap(y) == (y % 4 = 0 /\ y % 100 # 0) \/ y % 400 = 0

DaysInMonth(m, y) ==
    CASE m \in {4, 6, 9, 11} -> 30
      [] m = 2 -> (IF IsLeap(y) THEN 29 ELSE 28)
      [] OTHER -> 31

(* dateparser.parse on "<month> <day> <year>" or "<m>/<d> <year>": the
   calendar date when there is such a day, else None *)
DateparserParse(token, y) ==
    LET m == IF Len(token) = 2 THEN MonthNumber(token[1]) ELSE NumericMonth(token[1])
        d == IF Len(token) = 2 THEN DayValue(token[2]) ELSE NumericDay(token[1])
    IN IF m \in 1..12 /\ d \in 1..DaysInMonth(m, y) THEN <<y, m, d>> ELSE NoneIso

(* a token holds no weekday name and no 4-digit year, so the text parsed is
   the token followed by the hint; without a hint the year comes from
   RELATIVE_BASE, datetime(now().year, 9, 1) *)
parse_to_iso(raw_token, hint) ==
    IF raw_token = <<>> THEN NoneIso
    ELSE DateparserParse(raw_token, IF hint # 0 THEN hint ELSE CurrentYear)

----------------------------------------------------------------------------
(* Rows, keywords, items *)

(* line.split("|"), each part stripped *)
RECURSIVE SplitOnBar(_, _)
SplitOnBar(s, cur) ==
    IF s = <<>> THEN <<cur>>
    ELSE IF Head(s) = "|" THEN <<cur>> \o SplitOnBar(Tail(s), <<>>)
    ELSE SplitOnBar(Tail(s), Append(cur, Head(s)))

DropEmpty(ps) == SelectSeq(ps, LAMBDA c : c # <<>>)

(* re.split(r"\s{2,}", line) *)
RECURSIVE SplitOnGap(_, _)
SplitOnGap(s, cur) ==
    IF s = <<>> THEN <<cur>>
    ELSE IF Head(s) = Gap THEN <<cur>> \o SplitOnGap(Tail(s), <<>>)
    ELSE SplitOnGap(Tail(s), Append(cur, Head(s)))

(* str.strip() of a part: the runs of spaces at its ends go *)
RECURSIVE StripPart(_)
StripPart(c) ==
    IF c = <<>> THEN <<>>
    ELSE IF Head(c) = Gap THEN StripPart(Tail(c))
    ELSE IF c[Len(c)] = Gap THEN StripPart(SubSeq(c, 1, Len(c) - 1))
    ELSE c

StripParts(ps) == [k \in DOMAIN ps |-> StripPart(ps[k])]

(* a line of _page_text_lines holds no run of two spaces: the fallback split
   leaves one part and the whole line is returned *)
(* split_schedule_row that splits on every run of spaces *)
split_schedule_row_SplitWords(line) ==
    IF \E k \in DOMAIN line : line[k] = "|"
    THEN DropEmpty(StripParts(SplitOnBar(line, <<>>)))
    ELSE IF Len(line) > 1 THEN [k \in DOMAIN line |-> <<line[k]>>]
    ELSE <<line>>

(* lines 198-208: with a "|" the stripped non-empty parts, whatever their
   number; otherwise the parts between runs of spaces when there are at
   least two, else the line.  A page line never holds two spaces in a row
   after _normalize_spaces, so only the "|" branch can split it *)
split_schedule_row(line) ==
    IF \E k \in DOMAIN line : line[k] = "|"
    THEN DropEmpty(StripParts(SplitOnBar(line, <<>>)))
    ELSE LET parts == DropEmpty(SplitOnGap(line, <<>>))
         IN IF Len(parts) > 1 THEN parts ELSE <<line>>

line_is_assignmentish(s) == \E k \in DOMAIN s : IsAssignmentWord(s[k])

(* build_item that stores the normalizer's result as it is *)
build_item_KeepNone(title, raw, iso, page, source) ==
    [title |-> title,
     due_date_raw |-> raw,
     due_date_iso |-> iso,
     page |-> page,
     source |-> source]

(* iso or "" ; the title and the raw token are already space-normalized *)
build_item(title, raw, iso, page, source) ==
    [title |-> title,
     due_date_raw |-> raw,
     due_date_iso |-> IF Truthy(iso) THEN iso ELSE <<>>,
     page |-> page,
     source |-> source]

(* DedupeKey that tells the candidates of different origins apart *)
DedupeKey_WithSource(it) == <<Lower(it.title), it.due_date_iso, it.page, it.source>>

(* DedupeKey that compares titles case-sensitively *)
DedupeKey_CaseSensitive(it) == <<it.title, it.due_date_iso, it.page>>

DedupeKey(it) == <<Lower(it.title), it.due_date_iso, it.page>>

(* _dedupe_items in which a later duplicate replaces the kept item *)
RECURSIVE dedupe_items_keep_last(_)
dedupe_items_keep_last(its) ==
    IF its = <<>> THEN <<>>
    ELSE LET r == dedupe_items_keep_last(SubSeq(its, 1, Len(its) - 1))
             it == its[Len(its)]
         IN IF \E k \in DOMAIN r : DedupeKey(r[k]) = DedupeKey(it)
            THEN [k \in DOMAIN r |-> IF DedupeKey(r[k]) = DedupeKey(it) THEN it ELSE r[k]]
            ELSE Append(r, it)

RECURSIVE dedupe_items(_)
dedupe_items(its) ==
    IF its = <<>> THEN <<>>
    ELSE LET r == dedupe_items(SubSeq(its, 1, Len(its) - 1))
             it == its[Len(its)]
         IN IF \E k \in DOMAIN r : DedupeKey(r[k]) = DedupeKey(it)
            THEN r ELSE Append(r, it)

----------------------------------------------------------------------------
(* Sorting *)

FarDate == <<9999, 12, 31>>

(* _sort_key with the has_date flag inverted *)
sort_key_undated_first(it) ==
    <<IF it.due_date_iso # <<>> THEN 1 ELSE 0,
      IF it.due_date_iso # <<>> THEN it.due_date_iso ELSE <<9999, 12, 31>>,
      it.page,
      Lower(it.title)>>

(* _sort_key that takes the title without lower() *)
sort_key_case_sensitive(it) ==
    <<IF it.due_date_iso # <<>> THEN 0 ELSE 1,
      IF it.due_date_iso # <<>> THEN it.due_date_iso ELSE <<9999, 12, 31>>,
      it.page,
      it.title>>

(* _sort_key: (has_date, due_date_iso or "9999-12-31", page, title.lower()) *)
sort_key(it) ==
    <<IF it.due_date_iso # <<>> THEN 0 ELSE 1,
      IF it.due_date_iso # <<>> THEN it.due_date_iso ELSE FarDate,
      it.page,
      Lower(it.title)>>

(* the order of two ISO strings *)
IsoLess(a, b) ==
    \/ a[1] < b[1]
    \/ a[1] = b[1] /\ a[2] < b[2]
    \/ a[1] = b[1] /\ a[2] = b[2] /\ a[3] < b[3]

(* Python's < on two key tuples *)
KeyLess(a, b) ==
    \/ a[1] < b[1]
    \/ a[1] = b[1] /\ IsoLess(a[2], b[2])
    \/ a[1] = b[1] /\ a[2] = b[2] /\ a[3] < b[3]
    \/ a[1] = b[1] /\ a[2] = b[2] /\ a[3] = b[3] /\ StrLess(a[4], b[4])

(* insertion that keeps equal keys in arrival order *)
RECURSIVE InsertByKey(_, _)
InsertByKey(s, it) ==
    IF s = <<>> THEN <<it>>
    ELSE IF KeyLess(sort_key(it), sort_key(Head(s))) THEN <<it>> \o s
    ELSE <<Head(s)>> \o InsertByKey(Tail(s), it)

(* sorted(items, key=_sort_key): a stable sort *)
RECURSIVE sorted_items(_)
sorted_items(its) ==
    IF its = <<>> THEN <<>>
    ELSE InsertByKey(sorted_items(SubSeq(its, 1, Len(its) - 1)), its[Len(its)])

----------------------------------------------------------------------------
(* _scan_page, one line of pass 1 *)

(* NextLastDated that follows every token, normalized or not *)
NextLastDated_OnAnyToken(ln, ix, hint, ld) ==
    LET token == extract_month_day_token(ln)
        iso == parse_to_iso(token, hint)
    IN IF token # <<>>
       THEN [token |-> token, iso |-> iso, ix |-> ix]
       ELSE ld

(* NextLastDated that keeps the first dated line of the page *)
NextLastDated_KeepFirst(ln, ix, hint, ld) ==
    LET token == extract_month_day_token(ln)
        iso == parse_to_iso(token, hint)
    IN IF token # <<>> /\ Truthy(iso) /\ ld.ix = -1
       THEN [token |-> token, iso |-> iso, ix |-> ix]
       ELSE ld

(* lines 252-256: the last-dated triple after line ix *)
NextLastDated(ln, ix, hint, ld) ==
    LET token == extract_month_day_token(ln)
        iso == parse_to_iso(token, hint)
    IN IF token # <<>> /\ Truthy(iso)
       THEN [token |-> token, iso |-> iso, ix |-> ix]
       ELSE ld

(* DirectCandidates with a lookback window of 4 lines *)
DirectCandidates_Window4(ln, ix, page_ix, hint, ld) ==
    LET token == extract_month_day_token(ln)
    IN IF ~line_is_assignmentish(ln) THEN <<>>
       ELSE IF token # <<>>
       THEN <<build_item(ln, token, parse_to_iso(token, hint), page_ix, "text-line")>>
       ELSE IF ld.ix # -1 /\ (ix - ld.ix) <= 4 /\ Truthy(ld.iso)
       THEN <<build_item(ln, ld.token, ld.iso, page_ix, "text-line-nearby")>>
       ELSE <<build_item(ln, <<>>, <<>>, page_ix, "text-line-undated")>>

(* DirectCandidates whose undated branch keeps the stale last-dated values *)
DirectCandidates_StaleDate(ln, ix, page_ix, hint, ld) ==
    LET token == extract_month_day_token(ln)
    IN IF ~line_is_assignmentish(ln) THEN <<>>
       ELSE IF token # <<>>
       THEN <<build_item(ln, token, parse_to_iso(token, hint), page_ix, "text-line")>>
       ELSE IF ld.ix # -1 /\ (ix - ld.ix) <= 3 /\ Truthy(ld.iso)
       THEN <<build_item(ln, ld.token, ld.iso, page_ix, "text-line-nearby")>>
       ELSE <<build_item(ln, ld.token, ld.iso, page_ix, "text-line-undated")>>

(* DirectCandidates that keeps only the lines a date was found for *)
DirectCandidates_DropUndated(ln, ix, page_ix, hint, ld) ==
    LET token == extract_month_day_token(ln)
    IN IF ~line_is_assignmentish(ln) THEN <<>>
       ELSE IF token # <<>>
       THEN <<build_item(ln, token, parse_to_iso(token, hint), page_ix, "text-line")>>
       ELSE IF ld.ix # -1 /\ (ix - ld.ix) <= 3 /\ Truthy(ld.iso)
       THEN <<build_item(ln, ld.token, ld.iso, page_ix, "text-line-nearby")>>
       ELSE <<>>

(* DirectCandidates that looks at the last-dated context before the line's
   own token *)
DirectCandidates_NearbyFirst(ln, ix, page_ix, hint, ld) ==
    LET token == extract_month_day_token(ln)
    IN IF ~line_is_assignmentish(ln) THEN <<>>
       ELSE IF ld.ix # -1 /\ (ix - ld.ix) <= 3 /\ Truthy(ld.iso)
       THEN <<build_item(ln, ld.token, ld.iso, page_ix, "text-line-nearby")>>
       ELSE IF token # <<>>
       THEN <<build_item(ln, token, parse_to_iso(token, hint), page_ix, "text-line")>>
       ELSE <<build_item(ln, <<>>, <<>>, page_ix, "text-line-undated")>>

(* lines 259-268: the candidate of an assignment-ish line *)
DirectCandidates(ln, ix, page_ix, hint, ld) ==
    LET token == extract_month_day_token(ln)
    IN IF ~line_is_assignmentish(ln) THEN <<>>
       ELSE IF token # <<>>
       THEN <<build_item(ln, token, parse_to_iso(token, hint), page_ix, "text-line")>>
       ELSE IF ld.ix # -1 /\ (ix - ld.ix) <= 3 /\ Truthy(ld.iso)
       THEN <<build_item(ln, ld.token, ld.iso, page_ix, "text-line-nearby")>>
       ELSE <<build_item(ln, <<>>, <<>>, page_ix, "text-line-undated")>>

(* SegDate that takes the last part that holds a date token *)
SegDate_LastPart(parts, hint) ==
    LET ks == {k \in DOMAIN parts : extract_month_day_token(parts[k]) # <<>>}
    IN IF ks = {} THEN [date |-> <<>>, iso |-> NoneIso]
       ELSE LET t == extract_month_day_token(parts[Max(ks)])
            IN [date |-> t, iso |-> parse_to_iso(t, hint)]

(* lines 274-281: the first part that holds a date token *)
SegDate(parts, hint) ==
    LET ks == {k \in DOMAIN parts : extract_month_day_token(parts[k]) # <<>>}
    IN IF ks = {} THEN [date |-> <<>>, iso |-> NoneIso]
       ELSE LET t == extract_month_day_token(parts[Min(ks)])
            IN [date |-> t, iso |-> parse_to_iso(t, hint)]

(* PartCandidate that adopts the last date of the page however far back *)
PartCandidate_NoWindow(part, ix, page_ix, seg, ld) ==
    IF Truthy(seg.iso)
    THEN build_item(part, seg.date, seg.iso, page_ix, "table-row")
    ELSE IF Truthy(ld.iso) /\ ld.ix # -1
    THEN build_item(part, ld.token, ld.iso, page_ix, "table-row-nearby")
    ELSE build_item(part, <<>>, <<>>, page_ix, "table-row-undated")

(* lines 283-291: the candidate of one assignment-ish part *)
PartCandidate(part, ix, page_ix, seg, ld) ==
    IF Truthy(seg.iso)
    THEN build_item(part, seg.date, seg.iso, page_ix, "table-row")
    ELSE IF Truthy(ld.iso) /\ ld.ix # -1 /\ (ix - ld.ix) <= 3
    THEN build_item(part, ld.token, ld.iso, page_ix, "table-row-nearby")
    ELSE build_item(part, <<>>, <<>>, page_ix, "table-row-undated")

RECURSIVE PartCandidates(_, _, _, _, _)
PartCandidates(parts, ix, page_ix, seg, ld) ==
    IF parts = <<>> THEN <<>>
    ELSE (IF line_is_assignmentish(Head(parts))
          THEN <<PartCandidate(Head(parts), ix, page_ix, seg, ld)>>
          ELSE <<>>)
         \o PartCandidates(Tail(parts), ix, page_ix, seg, ld)

(* lines 271-291: the candidates of a row of several parts *)
RowCandidates(ln, ix, page_ix, hint, ld) ==
    LET parts == split_schedule_row(ln)
    IN IF Len(parts) > 1
       THEN PartCandidates(parts, ix, page_ix, SegDate(parts, hint), ld)
       ELSE <<>>

(* due\s+on | due\s+by | will\s+be\s+due, (?i) *)
HasDuePhrase(ln) ==
    \E k \in 1..(Len(ln) - 1) :
        \/ LowerWord(ln[k]) = "due" /\ LowerWord(ln[k + 1]) \in {"on", "by"}
        \/ k + 2 <= Len(ln) /\ LowerWord(ln[k]) = "will"
           /\ LowerWord(ln[k + 1]) = "be" /\ LowerWord(ln[k + 2]) = "due"

IsPolicyLine(ln) == HasDuePhrase(ln) /\ line_is_assignmentish(ln)

(* PolicyCandidates that passes over the lines that carry a date token *)
RECURSIVE PolicyCandidates_SkipDated(_, _)
PolicyCandidates_SkipDated(lns, page_ix) ==
    IF lns = <<>> THEN <<>>
    ELSE (IF IsPolicyLine(Head(lns)) /\ extract_month_day_token(Head(lns)) = <<>>
          THEN <<build_item(Head(lns), <<>>, <<>>, page_ix, "policy-line")>>
          ELSE <<>>)
         \o PolicyCandidates_SkipDated(Tail(lns), page_ix)

(* lines 294-296: pass 2 over the page *)
RECURSIVE PolicyCandidates(_, _)
PolicyCandidates(lns, page_ix) ==
    IF lns = <<>> THEN <<>>
    ELSE (IF IsPolicyLine(Head(lns))
          THEN <<build_item(Head(lns), <<>>, <<>>, page_ix, "policy-line")>>
          ELSE <<>>)
         \o PolicyCandidates(Tail(lns), page_ix)

(* the indexes (0-based) of the policy lines, in order *)
PolicyLineIndexes(lns) ==
    LET F[k \in 0..Len(lns)] ==
            IF k = 0 THEN <<>>
            ELSE IF IsPolicyLine(lns[k]) THEN Append(F[k - 1], k - 1) ELSE F[k - 1]
    IN F[Len(lns)]

----------------------------------------------------------------------------
(* The documents explored *)

(* lines of the one-page documents that exercise the lookback window *)
WindowLines ==
    { <<"Sep", "1">>,
      <<"Quiz">>,
      <<"Notes">>,
      <<"Quiz", "|", "Notes">>,
      <<"HW1", "due", "on">> }

(* lines of the short one-page documents *)
FullLines ==
    WindowLines \cup
    { <<"quiz">>,
      <<"Sep", "45", "HW1">>,
      <<"Oct", "2", "|", "HW1">>,
      <<"HW1", "|", "Oct", "2">>,
      <<"Quiz", "due", "on", "Sep", "4th">>,
      <<"9-15", "Quiz">>,
      <<"Quiz", "Sep", "1">>,
      <<"Oct", "2", "Quiz">>,
      <<"2025">>,
      <<"Sep", "1", "Quiz", "2025">>,
      <<"Sep", "45", "|", "HW1", "|", "Oct", "2">>,
      <<"Oct", "2", "|", "HW1", "Sep", "1">> }

(* lines of the one-page documents that exercise the carried date context *)
ContextLines ==
    { <<"Sep", "1">>,
      <<"Oct", "2">>,
      <<"Sep", "45">>,
      <<"Quiz">>,
      <<"Oct">>,
      <<"2", "Quiz">> }

(* lines of the multi-page documents *)
PageLines ==
    { <<"Quiz", "Sep", "1">>,
      <<"quiz", "Sep", "1", "2025">>,
      <<"Oct", "2", "HW1">>,
      <<"2024">> }

(* the year _guess_year_from_pdf_metadata finds, 0 when it finds none *)
MetaYears == {0, 2024}

OnePage(S) == {<<pg>> : pg \in S}

DocInputs ==
    [meta : {0}, pages : OnePage(SeqsUpTo(WindowLines, MaxLines))]
    \cup [meta : MetaYears, pages : OnePage(SeqsUpTo(FullLines, MaxShort))]
    \cup [meta : {2025}, pages : OnePage(SeqsUpTo(ContextLines, MaxContext))]
    \cup [meta : MetaYears,
          pages : SeqsUpTo(SeqsUpTo(PageLines, MaxPageLines), MaxPages)]

NoResult == [status |-> "", items |-> <<>>, total_pages |-> 0]

NoDoc == [meta |-> 0, pages |-> <<>>]

NoLastDated == [token |-> <<>>, iso |-> NoneIso, ix |-> -1]

LastDated == [token |-> last_dated_token, iso |-> last_dated_iso,
              ix |-> last_dated_line_ix]

----------------------------------------------------------------------------
(* The state machine *)

CoreInit(D) ==
    /\ doc \in D
    /\ pc = "start"
    /\ p = 0
    /\ lines = <<>>
    /\ i = 0
    /\ year_hints = <<>>
    /\ year_hint = 0
    /\ last_dated_token = <<>>
    /\ last_dated_iso = NoneIso
    /\ last_dated_line_ix = -1
    /\ out = <<>>
    /\ out_line = <<>>
    /\ hints_used = <<>>
    /\ items = <<>>
    /\ raw_items = <<>>
    /\ result = NoResult
    /\ run = 1
    /\ first = [doc |-> NoDoc, result |-> NoResult, others |-> 0]

InitWith(D) == CoreInit(D) /\ ExtIdle

(* the extractor at rest, for the specifications of the other components *)
CoreIdle == CoreInit({NoDoc})

Init == InitWith(DocInputs)

(* Open with year_hints kept from the previous call (a module-level list) *)
Open_KeepHints ==
    /\ pc = "start"
    /\ items' = <<>>
    /\ year_hints' = year_hints \o (IF doc.meta # 0 THEN <<doc.meta>> ELSE <<>>)
    /\ p' = 0
    /\ hints_used' = <<>>
    /\ pc' = "page"
    /\ UNCHANGED <<doc, lines, i, year_hint, last_dated_token, last_dated_iso,
                   last_dated_line_ix, out, out_line, raw_items, result,
                   run, first>>
    /\ UNCHANGED extVars

(* lines 321-346: fresh locals, the metadata year is the first hint *)
Open ==
    /\ pc = "start"
    /\ items' = <<>>
    /\ year_hints' = IF doc.meta # 0 THEN <<doc.meta>> ELSE <<>>
    /\ p' = 0
    /\ hints_used' = <<>>
    /\ pc' = "page"
    /\ UNCHANGED <<doc, lines, i, year_hint, last_dated_token, last_dated_iso,
                   last_dated_line_ix, out, out_line, raw_items, result,
                   run, first>>
    /\ UNCHANGED extVars

(* LoadPage with a last-dated context that outlives the page (module-level
   state instead of the locals of _scan_page) *)
LoadPage_KeepLastDated ==
    /\ pc = "page"
    /\ p < Len(doc.pages)
    /\ lines' = doc.pages[p + 1]
    /\ year_hints' = year_hints \o PageYearLiterals(doc.pages[p + 1])
    /\ year_hint' = pick_reasonable_year(year_hints')
    /\ hints_used' = Append(hints_used, year_hint')
    /\ out' = <<>>
    /\ out_line' = <<>>
    /\ i' = 0
    /\ pc' = "scan"
    /\ UNCHANGED <<doc, p, items, raw_items, result, run, first,
                   last_dated_token, last_dated_iso, last_dated_line_ix>>
    /\ UNCHANGED extVars

(* lines 349-361 and 245-248: read the page, collect its year literals, pick
   the hint and enter _scan_page with fresh locals *)
LoadPage ==
    /\ pc = "page"
    /\ p < Len(doc.pages)
    /\ lines' = doc.pages[p + 1]
    /\ year_hints' = year_hints \o PageYearLiterals(doc.pages[p + 1])
    /\ year_hint' = pick_reasonable_year(year_hints')
    /\ hints_used' = Append(hints_used, year_hint')
    /\ out' = <<>>
    /\ out_line' = <<>>
    /\ last_dated_token' = NoLastDated.token
    /\ last_dated_iso' = NoLastDated.iso
    /\ last_dated_line_ix' = NoLastDated.ix
    /\ i' = 0
    /\ pc' = "scan"
    /\ UNCHANGED <<doc, p, items, raw_items, result, run, first>>
    /\ UNCHANGED extVars

(* lines 251-291: one iteration of pass 1 *)
ScanLine ==
    /\ pc = "scan"
    /\ i < Len(lines)
    /\ LET ln == lines[i + 1]
           ld == NextLastDated(ln, i, year_hint, LastDated)
           new == DirectCandidates(ln, i, p + 1, year_hint, ld)
                  \o RowCandidates(ln, i, p + 1, year_hint, ld)
       IN /\ last_dated_token' = ld.token
          /\ last_dated_iso' = ld.iso
          /\ last_dated_line_ix' = ld.ix
          /\ out' = out \o new
          /\ out_line' = out_line \o [k \in DOMAIN new |-> i]
    /\ i' = i + 1
    /\ UNCHANGED <<doc, pc, p, lines, year_hints, year_hint, hints_used, items,
                   raw_items, result, run, first>>
    /\ UNCHANGED extVars

(* lines 293-298 and 361: pass 2, return out, items.extend *)
PolicyPass ==
    /\ pc = "scan"
    /\ i = Len(lines)
    /\ out' = out \o PolicyCandidates(lines, p + 1)
    /\ out_line' = out_line \o PolicyLineIndexes(lines)
    /\ items' = items \o out'
    /\ p' = p + 1
    /\ pc' = "page"
    /\ UNCHANGED <<doc, lines, i, year_hints, year_hint, hints_used,
                   last_dated_token, last_dated_iso, last_dated_line_ix,
                   raw_items, result, run, first>>
    /\ UNCHANGED extVars

(* line 364 *)
Dedupe ==
    /\ pc = "page"
    /\ p = Len(doc.pages)
    /\ raw_items' = items
    /\ items' = dedupe_items(items)
    /\ pc' = "sort"
    /\ UNCHANGED <<doc, p, lines, i, year_hints, year_hint, hints_used,
                   last_dated_token, last_dated_iso, last_dated_line_ix, out,
                   out_line, result, run, first>>
    /\ UNCHANGED extVars

(* Return that reports an error when nothing was extracted *)
Return_ErrorOnEmpty ==
    /\ pc = "sort"
    /\ LET items_sorted == sorted_items(items)
       IN result' = [status |-> IF items_sorted = <<>> THEN "error" ELSE "ok",
                     items |-> items_sorted,
                     total_pages |-> Len(items_sorted)]
    /\ pc' = "done"
    /\ UNCHANGED <<doc, p, lines, i, year_hints, year_hint, hints_used,
                   last_dated_token, last_dated_iso, last_dated_line_ix, out,
                   out_line, items, raw_items, run, first>>
    /\ UNCHANGED extVars

(* lines 371-391: sort, pack and return (pdf_title and metadata are copied
   from the document and left out) *)
Return ==
    /\ pc = "sort"
    /\ LET items_sorted == sorted_items(items)
       IN result' = [status |-> "ok", items |-> items_sorted,
                     total_pages |-> Len(items_sorted)]
    /\ pc' = "done"
    /\ UNCHANGED <<doc, p, lines, i, year_hints, year_hint, hints_used,
                   last_dated_token, last_dated_iso, last_dated_line_ix, out,
                   out_line, items, raw_items, run, first>>
    /\ UNCHANGED extVars

Next == Open \/ LoadPage \/ ScanLine \/ PolicyPass \/ Dedupe \/ Return

Spec == Init /\ [][Next]_vars

----------------------------------------------------------------------------
(* One process serving several calls, one after the other (section 5 of the
   specification: the calls share nothing).  The locals of the finished call
   are left as they are; the next call builds its own. *)

(* lines of the multi-page documents that are processed repeatedly *)
LeakLines == { <<"Sep", "1">>, <<"Quiz">> }

RerunDocs ==
    [meta : MetaYears, pages : OnePage(SeqsUpTo(FullLines, MaxRerunLines))]
    \cup [meta : {0}, pages : SeqsUpTo(SeqsUpTo(LeakLines, MaxPageLines), MaxPages)]

(* documents processed between two calls on the same input *)
OtherDocs ==
    { [meta |-> 2025, pages |-> << <<<<"2025">>, <<"Oct", "2">>>> >>],
      [meta |-> 0, pages |-> << <<<<"Sep", "1">>>>, <<<<"2024">>, <<"Oct", "2", "HW1">>>> >>] }

InitRerun == InitWith(RerunDocs)

(* the caller invokes extract_due_dates_from_pdf again *)
Accept ==
    /\ pc = "done"
    /\ run < MaxRuns
    /\ run' = run + 1
    /\ \E d \in {IF run = 1 THEN doc ELSE first.doc} \cup OtherDocs :
          /\ doc' = d
          /\ first' = IF run = 1
                      THEN [doc |-> doc, result |-> result, others |-> 0]
                      ELSE [first EXCEPT !.others = @ + (IF doc # first.doc THEN 1 ELSE 0)]
    /\ pc' = "start"
    /\ UNCHANGED <<p, lines, i, year_hints, year_hint, hints_used,
                   last_dated_token, last_dated_iso, last_dated_line_ix, out,
                   out_line, items, raw_items, result>>
    /\ UNCHANGED extVars

NextRerun ==
    Open \/ LoadPage \/ ScanLine \/ PolicyPass \/ Dedupe \/ Return \/ Accept

SpecRerun == InitRerun /\ [][NextRerun]_vars

----------------------------------------------------------------------------
(* Vocabulary of the properties *)

UndatedSources == {"text-line-undated", "table-row-undated"}

Range(sq) == {sq[k] : k \in DOMAIN sq}

CarriesDate(ln) == extract_month_day_token(ln) # <<>>

(* the lines before index ix (0-based) of the scanned page that carry a date *)
DatedBefore(ix) == {j \in 0..(ix - 1) : CarriesDate(lines[j + 1])}

OutOfWindow(ix) == DatedBefore(ix) = {} \/ ix - Max(DatedBefore(ix)) > 3

(* line ix is assignment-like and carries no date token of its own *)
BareAssignment(ix) ==
    /\ line_is_assignmentish(lines[ix + 1])
    /\ ~CarriesDate(lines[ix + 1])

----------------------------------------------------------------------------
(* C1 -- Window bound.  In _scan_page, every candidate emitted for an
   assignment-like line that carries no date token of its own, and whose
   nearest preceding date-carrying line lies more than 3 lines back (or does
   not exist on the page), has an empty due_date_raw, an empty due_date_iso
   and an origin that carries no date (text-line-undated, table-row-undated,
   or the policy-line tag of pass 2): it never adopts the earlier date. *)
C1_WindowBound ==
    \A k \in DOMAIN out :
        (BareAssignment(out_line[k]) /\ OutOfWindow(out_line[k]))
        => /\ out[k].due_date_raw = <<>>
           /\ out[k].due_date_iso = <<>>
           /\ out[k].source \in UndatedSources \cup {"policy-line"}

(* a bare assignment line 4 lines after a line whose date normalizes *)
C1_Witness ==
    \E k \in DOMAIN out :
        /\ BareAssignment(out_line[k])
        /\ DatedBefore(out_line[k]) # {}
        /\ out_line[k] - Max(DatedBefore(out_line[k])) = 4
        /\ last_dated_line_ix = Max(DatedBefore(out_line[k]))
        /\ out[k].source = "text-line-undated"

----------------------------------------------------------------------------
(* C2 -- No date fabrication.  Every item of every output of the engine (the
   list _scan_page builds, the document's item list, the returned list)
   whose source is text-line-undated, table-row-undated or policy-line has an
   empty due_date_iso. *)
C2_NoDateFabrication ==
    \A it \in Range(out) \cup Range(items) \cup Range(result.items) :
        it.source \in UndatedSources \cup {"policy-line"}
        => it.due_date_iso = <<>>

(* the returned list holds an undated item of a page on which a date was
   recognized and normalized *)
C2_Witness ==
    /\ pc = "done"
    /\ last_dated_line_ix # -1
    /\ \E it \in Range(result.items) :
          it.source \in UndatedSources /\ it.page = Len(doc.pages)
    /\ \E it \in Range(result.items) : it.source = "policy-line"

----------------------------------------------------------------------------
(* C3 -- Dedup correctness.  After _dedupe_items, for every candidate there
   is exactly one output item with the candidate's (title up to letter case,
   due_date_iso, page); hence no two output items share that key. *)
KeyOf(it) == <<Lower(it.title), it.due_date_iso, it.page>>

WithKey(sq, key) == {k \in DOMAIN sq : KeyOf(sq[k]) = key}

C3_DedupCorrect ==
    pc \in {"sort", "done"}
    => /\ \A c \in Range(raw_items) : Cardinality(WithKey(items, KeyOf(c))) = 1
       /\ \A a, b \in DOMAIN items : KeyOf(items[a]) = KeyOf(items[b]) => a = b
       /\ \A a, b \in DOMAIN result.items :
             KeyOf(result.items[a]) = KeyOf(result.items[b]) => a = b

(* two candidates whose titles differ in letter case only were collapsed *)
C3_Witness ==
    /\ pc = "done"
    /\ \E a, b \in DOMAIN raw_items :
          /\ a < b
          /\ raw_items[a].title # raw_items[b].title
          /\ KeyOf(raw_items[a]) = KeyOf(raw_items[b])
    /\ Len(result.items) < Len(raw_items)

----------------------------------------------------------------------------
(* C4 -- Cross-page duplicate collapse.
   As claimed: when the same assignment text with the same resolved date
   appears on two different lines or on two different pages of a document,
   the returned list holds a single item for it (title taken up to letter
   case, as the dedupe does), with the page and origin of the first
   occurrence. *)
TitleDate(it) == <<Lower(it.title), it.due_date_iso>>

FirstWith(sq, F(_), v) == sq[Min({k \in DOMAIN sq : F(sq[k]) = v})]

C4_AsClaimed ==
    pc = "done"
    => \A c \in Range(raw_items) :
          c.due_date_iso # <<>>
          => /\ Cardinality({k \in DOMAIN result.items :
                               TitleDate(result.items[k]) = TitleDate(c)}) = 1
             /\ \A r \in Range(result.items) :
                   TitleDate(r) = TitleDate(c)
                   => /\ r.page = FirstWith(raw_items, TitleDate, TitleDate(c)).page
                      /\ r.source = FirstWith(raw_items, TitleDate, TitleDate(c)).source

(* C4 as amended: when the same assignment text with the same resolved date
   appears on two different lines of one page, the returned list holds a
   single item for it on that page, with the origin of the first occurrence
   on that page; occurrences on different pages stay separate items, one per
   page. *)
C4_SamePageCollapse ==
    pc = "done"
    => \A c \in Range(raw_items) :
          c.due_date_iso # <<>>
          => /\ Cardinality(WithKey(result.items, KeyOf(c))) = 1
             /\ \A r \in Range(result.items) :
                   KeyOf(r) = KeyOf(c)
                   => /\ r.source = FirstWith(raw_items, KeyOf, KeyOf(c)).source
                      /\ r.title = FirstWith(raw_items, KeyOf, KeyOf(c)).title

(* two dated candidates of one page with the same key and different
   origins *)
C4_Witness ==
    /\ pc = "done"
    /\ \E a, b \in DOMAIN raw_items :
          /\ a < b
          /\ raw_items[a].due_date_iso # <<>>
          /\ KeyOf(raw_items[a]) = KeyOf(raw_items[b])
          /\ raw_items[a].source # raw_items[b].source

----------------------------------------------------------------------------
(* C5 -- Ordering.  In the returned list every item with a non-empty
   due_date_iso comes before every item with an empty one. *)
C5_DatedBeforeUndated ==
    pc = "done"
    => \A a, b \in DOMAIN result.items :
          (result.items[a].due_date_iso # <<>> /\ result.items[b].due_date_iso = <<>>)
          => a < b

(* the scan produced an undated candidate before a dated one *)
C5_Witness ==
    /\ pc = "done"
    /\ \E a, b \in DOMAIN items :
          a < b /\ items[a].due_date_iso = <<>> /\ items[b].due_date_iso # <<>>
    /\ \E a, b \in DOMAIN result.items :
          a < b /\ result.items[a].due_date_iso # <<>>
                /\ result.items[b].due_date_iso = <<>>

----------------------------------------------------------------------------
(* C6 -- Sort order within a group.  Among the returned items that all have a
   date, and among those that all lack one, items are in ascending order of
   due_date_iso, then of page, then of the title compared case-insensitively;
   the returned list is a permutation of the deduplicated list. *)
SameGroup(a, b) == (a.due_date_iso = <<>>) <=> (b.due_date_iso = <<>>)

InOrder(a, b) ==
    \/ a.due_date_iso # <<>> /\ IsoLess(a.due_date_iso, b.due_date_iso)
    \/ a.due_date_iso = b.due_date_iso /\ a.page < b.page
    \/ a.due_date_iso = b.due_date_iso /\ a.page = b.page
       /\ ~StrLess(Lower(b.title), Lower(a.title))

Occurrences(sq, x) == Cardinality({k \in DOMAIN sq : sq[k] = x})

C6_SortedWithinGroup ==
    pc = "done"
    => /\ \A a, b \in DOMAIN result.items :
             (a < b /\ SameGroup(result.items[a], result.items[b]))
             => InOrder(result.items[a], result.items[b])
       /\ Len(result.items) = Len(items)
       /\ \A x \in Range(items) \cup Range(result.items) :
             Occurrences(result.items, x) = Occurrences(items, x)

(* on a tie of date and page the title decided, against the order the scan
   produced and against the case-sensitive order of the two titles *)
C6_Witness ==
    /\ pc = "done"
    /\ \E a, b \in DOMAIN items :
          /\ a < b
          /\ items[a].due_date_iso = items[b].due_date_iso
          /\ items[a].page = items[b].page
          /\ StrLess(Lower(items[b].title), Lower(items[a].title))
          /\ StrLess(items[a].title, items[b].title)
          /\ \E c, d \in DOMAIN result.items :
                c < d /\ result.items[c] = items[b] /\ result.items[d] = items[a]

----------------------------------------------------------------------------
(* C7 -- Determinism.  Whenever a call on the input of the process's first
   call finishes, whatever was processed in between, it returns the list the
   first call returned. *)
C7_SameInputSameOutput ==
    (pc = "done" /\ run > 1 /\ doc = first.doc) => result = first.result

(* the third call repeats the first after a different document; the input
   carries no year of its own and yields a dated item *)
C7_Witness ==
    /\ pc = "done"
    /\ run = 3
    /\ doc = first.doc
    /\ first.others = 1
    /\ year_hints = <<>>
    /\ \E it \in Range(result.items) : it.due_date_iso # <<>>

----------------------------------------------------------------------------
(* C8 -- Year hint selection.  As claimed: the hint picked from a non-empty
   list of candidate years is the largest of the years with the highest
   occurrence count. *)
MostFrequent(c) ==
    {y \in Range(c) : \A z \in Range(c) : Count(c, z) <= Count(c, y)}

C8_AsClaimed ==
    (pc = "scan" /\ year_hints # <<>>) => year_hint = Max(MostFrequent(year_hints))

----------------------------------------------------------------------------
(* C9 -- Year hint lifecycle.  As claimed: the year hint is fixed before the
   first date is normalized, so all pages of a document on which a date
   token is normalized are normalized with the same year hint. *)
PageCarriesDate(pg) == \E l \in DOMAIN doc.pages[pg] : CarriesDate(doc.pages[pg][l])

C9_AsClaimed ==
    \A a, b \in DOMAIN hints_used :
        (PageCarriesDate(a) /\ PageCarriesDate(b)) => hints_used[a] = hints_used[b]

----------------------------------------------------------------------------
(* C10 -- Undated candidates are retained.  For every scanned line that is
   assignment-like, _scan_page has emitted a candidate whose title is that
   line; when the line carries no date token and none of the 3 lines before
   it carries a date that normalizes, that candidate has an empty
   due_date_raw and due_date_iso.  The returned list still holds an item for
   every assignment-like line of every page (title up to letter case). *)
Resolvable(j) ==
    Truthy(parse_to_iso(extract_month_day_token(lines[j + 1]), year_hint))

NoDateFor(ix) == ~\E j \in 0..(ix - 1) : ix - j <= 3 /\ Resolvable(j)

C10_UndatedRetained ==
    /\ \A ix \in 0..(i - 1) :
          line_is_assignmentish(lines[ix + 1])
          => /\ \E k \in DOMAIN out :
                   out_line[k] = ix /\ out[k].title = lines[ix + 1]
             /\ (BareAssignment(ix) /\ NoDateFor(ix))
                => \E k \in DOMAIN out :
                      /\ out_line[k] = ix
                      /\ out[k].title = lines[ix + 1]
                      /\ out[k].due_date_raw = <<>>
                      /\ out[k].due_date_iso = <<>>
    /\ pc = "done"
       => \A pg \in DOMAIN doc.pages : \A l \in DOMAIN doc.pages[pg] :
             line_is_assignmentish(doc.pages[pg][l])
             => \E r \in Range(result.items) :
                   r.page = pg /\ Lower(r.title) = Lower(doc.pages[pg][l])

(* a date-less assignment line right after a line whose date token does not
   normalize: the returned list holds its undated candidate *)
C10_Witness ==
    /\ pc = "done"
    /\ \E k \in DOMAIN out :
          /\ BareAssignment(out_line[k])
          /\ ~OutOfWindow(out_line[k])
          /\ NoDateFor(out_line[k])
          /\ out[k].source = "text-line-undated"
          /\ out[k] \in Range(result.items)

----------------------------------------------------------------------------
(* the lines before index ix of the scanned page whose date token normalizes:
   the dated lines of the last-dated context *)
ResolvableBefore(ix) == {j \in 0..(ix - 1) : Resolvable(j)}

(* C11 -- Nearby-line adoption.  In _scan_page, an assignment-like line i
   that carries no date token of its own, and whose most recent preceding
   dated line (a line whose date token normalized) is line j with
   1 <= i - j <= 3, yields a candidate with origin text-line-nearby whose
   due_date_raw and due_date_iso are exactly the token and the ISO date of
   line j, and no nearby-origin candidate of line i carries the date of an
   older line. *)
C11_NearbyAdoption ==
    \A ix \in 0..(i - 1) :
        (/\ BareAssignment(ix)
         /\ ResolvableBefore(ix) # {}
         /\ ix - Max(ResolvableBefore(ix)) <= 3)
        => LET j == Max(ResolvableBefore(ix))
               t == extract_month_day_token(lines[j + 1])
           IN /\ \E k \in DOMAIN out :
                    /\ out_line[k] = ix
                    /\ out[k].title = lines[ix + 1]
                    /\ out[k].source = "text-line-nearby"
                    /\ out[k].due_date_raw = t
                    /\ out[k].due_date_iso = parse_to_iso(t, year_hint)
              /\ \A k \in DOMAIN out :
                    (/\ out_line[k] = ix
                     /\ out[k].source \in {"text-line-nearby", "table-row-nearby"})
                    => /\ out[k].due_date_raw = t
                       /\ out[k].due_date_iso = parse_to_iso(t, year_hint)

(* a bare assignment line with two dated lines of different dates inside its
   window: its nearby candidate carries the date of the nearer one *)
C11_Witness ==
    \E k \in DOMAIN out :
        /\ BareAssignment(out_line[k])
        /\ out[k].source = "text-line-nearby"
        /\ \E j \in ResolvableBefore(out_line[k]) :
              /\ j < Max(ResolvableBefore(out_line[k]))
              /\ out_line[k] - j <= 3
              /\ extract_month_day_token(lines[j + 1]) # out[k].due_date_raw
        /\ out[k].due_date_raw =
              extract_month_day_token(lines[Max(ResolvableBefore(out_line[k])) + 1])

----------------------------------------------------------------------------
(* the line is a month name and nothing else *)
MonthOnly(ln) == Len(ln) = 1 /\ IsMonthWord(ln[1])

(* the line opens with a bare day number, names an assignment and holds no
   date token *)
DayOnlyAssignment(ln) ==
    /\ Len(ln) >= 2
    /\ ln[1] \in {"1", "2"}
    /\ line_is_assignmentish(ln)
    /\ ~CarriesDate(ln)

(* the lines before index ix of the scanned page that name a month *)
MonthLinesBefore(ix) ==
    {j \in 0..(ix - 1) : \E w \in Range(lines[j + 1]) : IsMonthWord(w)}

(* C12 -- Month carry-forward, as claimed.  When the most recent line of the
   page that names a month is a month-only line, a following line with a bare
   day number and an assignment phrase yields an item whose due_date_iso is
   that day in the carried month of the hint year; this holds for every such
   day-only line until another month is seen. *)
C12_AsClaimed ==
    \A ix \in 0..(i - 1) :
        (/\ DayOnlyAssignment(lines[ix + 1])
         /\ MonthLinesBefore(ix) # {}
         /\ MonthOnly(lines[Max(MonthLinesBefore(ix)) + 1]))
        => \E k \in DOMAIN out :
              /\ out_line[k] = ix
              /\ out[k].title = lines[ix + 1]
              /\ out[k].due_date_iso =
                    << IF year_hint # 0 THEN year_hint ELSE CurrentYear,
                       MonthNumber(lines[Max(MonthLinesBefore(ix)) + 1][1]),
                       DayValue(lines[ix + 1][1]) >>

----------------------------------------------------------------------------
(* the cells of line ix of the scanned page *)
Cells(ix) == split_schedule_row(lines[ix + 1])

(* the cells of the row that hold a date token *)
TokenCells(ix) == {d \in DOMAIN Cells(ix) : CarriesDate(Cells(ix)[d])}

(* the cells of the row whose date token normalizes *)
DateCells(ix) ==
    {d \in TokenCells(ix) :
        Truthy(parse_to_iso(extract_month_day_token(Cells(ix)[d]), year_hint))}

(* cell c of row ix is assignment-like and holds no date token *)
BareCell(ix, c) ==
    /\ line_is_assignmentish(Cells(ix)[c])
    /\ ~CarriesDate(Cells(ix)[c])

(* C13 -- Table-row borrowing, as claimed.  In a row of several cells, an
   assignment-like cell without a date of its own yields an item that carries
   the date found in another cell of the same row, whether that cell comes
   before or after it, with the normalization of that date as due_date_iso. *)
C13_AsClaimed ==
    \A ix \in 0..(i - 1) :
        Len(Cells(ix)) > 1
        => \A c \in DOMAIN Cells(ix) :
              (BareCell(ix, c) /\ DateCells(ix) # {})
              => \E k \in DOMAIN out : \E d \in DateCells(ix) :
                    /\ out_line[k] = ix
                    /\ out[k].title = Cells(ix)[c]
                    /\ out[k].due_date_raw = extract_month_day_token(Cells(ix)[d])
                    /\ out[k].due_date_iso =
                          parse_to_iso(extract_month_day_token(Cells(ix)[d]), year_hint)

(* C13 -- Table-row borrowing, amended.  In a row of several cells, an
   assignment-like cell without a date of its own borrows from the first cell
   of the row that holds a date token, whether that cell comes before or
   after it: when that token normalizes the cell yields a table-row item with
   that token and its normalization; when it does not normalize nothing is
   borrowed from the row, not even from a later cell with a valid date, and
   the item of the cell is table-row-nearby or table-row-undated. *)
C13_RowBorrowing ==
    \A ix \in 0..(i - 1) :
        Len(Cells(ix)) > 1
        => \A c \in DOMAIN Cells(ix) :
              (BareCell(ix, c) /\ TokenCells(ix) # {})
              => LET d == Min(TokenCells(ix))
                     t == extract_month_day_token(Cells(ix)[d])
                 IN IF d \in DateCells(ix)
                    THEN \E k \in DOMAIN out :
                            /\ out_line[k] = ix
                            /\ out[k].title = Cells(ix)[c]
                            /\ out[k].source = "table-row"
                            /\ out[k].due_date_raw = t
                            /\ out[k].due_date_iso = parse_to_iso(t, year_hint)
                    ELSE \A k \in DOMAIN out :
                            (out_line[k] = ix /\ out[k].title = Cells(ix)[c])
                            => out[k].source \in {"table-row-nearby",
                                                  "table-row-undated"}

(* an assignment cell that borrows the date of a later cell of its row *)
C13_Witness ==
    \E k \in DOMAIN out :
        /\ out[k].source = "table-row"
        /\ Len(Cells(out_line[k])) > 1
        /\ \E c \in DOMAIN Cells(out_line[k]) :
              /\ BareCell(out_line[k], c)
              /\ out[k].title = Cells(out_line[k])[c]
              /\ c < Min(TokenCells(out_line[k]))
        /\ Truthy(out[k].due_date_iso)

----------------------------------------------------------------------------
(* C14 -- Own-cell date wins in a table row, as claimed.  When an
   assignment-like cell of a row holds a date token itself and another cell
   of the row holds one too, the candidate created for the assignment-like
   cell carries the date of its own cell, not the date of the other cell. *)
C14_AsClaimed ==
    \A ix \in 0..(i - 1) :
        Len(Cells(ix)) > 1
        => \A c \in TokenCells(ix) :
              (/\ line_is_assignmentish(Cells(ix)[c])
               /\ TokenCells(ix) \ {c} # {})
              => /\ \E k \in DOMAIN out :
                       out_line[k] = ix /\ out[k].title = Cells(ix)[c]
                 /\ \A k \in DOMAIN out :
                       (out_line[k] = ix /\ out[k].title = Cells(ix)[c])
                       => out[k].due_date_raw =
                             extract_month_day_token(Cells(ix)[c])

----------------------------------------------------------------------------
(* line ix of the scanned page is assignment-like and holds a date token
   that the normalizer cannot resolve *)
FailedDate(ix) ==
    /\ line_is_assignmentish(lines[ix + 1])
    /\ CarriesDate(lines[ix + 1])
    /\ ~Resolvable(ix)

(* C15 -- Normalization failure is not an error.  When the normalizer cannot
   resolve the date token of an assignment-like line it returns an empty
   result: the line still yields a text-line candidate whose due_date_raw is
   the token and whose due_date_iso is the empty string; no item of any
   output ever holds a null due_date_iso; the sweep goes on to the end of
   the page and the call returns status ok. *)
C15_FailureIsNotAnError ==
    /\ \A ix \in 0..(i - 1) :
          FailedDate(ix)
          => \E k \in DOMAIN out :
                /\ out_line[k] = ix
                /\ out[k].title = lines[ix + 1]
                /\ out[k].source = "text-line"
                /\ out[k].due_date_raw = extract_month_day_token(lines[ix + 1])
                /\ out[k].due_date_iso = <<>>
    /\ \A it \in Range(out) \cup Range(items) \cup Range(result.items) :
          it.due_date_iso # NoneIso
    /\ (pc \in {"page", "sort", "done"} /\ p >= 1) => i = Len(lines)
    /\ pc = "done" => result.status = "ok"

(* the call has returned an item with the token and an empty ISO date, and a
   line after the failing one was swept and gave an item as well *)
C15_Witness ==
    /\ pc = "done"
    /\ \E ix \in 0..(i - 1) :
          /\ FailedDate(ix)
          /\ \E r \in Range(result.items) :
                /\ r.title = lines[ix + 1]
                /\ r.due_date_raw = extract_month_day_token(lines[ix + 1])
                /\ r.due_date_iso = <<>>
          /\ \E k \in DOMAIN out : out_line[k] > ix

----------------------------------------------------------------------------
(* no line of any page of the document is assignment-like: the pages are
   empty, or hold only other text *)
NothingToExtract ==
    \A pg \in DOMAIN doc.pages : \A l \in DOMAIN doc.pages[pg] :
        ~line_is_assignmentish(doc.pages[pg][l])

(* C16 -- Empty input yields an empty result, not a failure.  For a document
   whose pages have empty text, or hold no assignment-like line, no page
   contributes an item and extract_due_dates_from_pdf returns status ok with
   an empty list of items. *)
C16_EmptyInputEmptyResult ==
    NothingToExtract
    => /\ pc # "start" => items = <<>>
       /\ pc = "done" => (result.status = "ok" /\ result.items = <<>>)

(* the call has returned for a document with a page of empty text and a page
   of text that names no assignment *)
C16_Witness ==
    /\ pc = "done"
    /\ NothingToExtract
    /\ \E pg \in DOMAIN doc.pages : doc.pages[pg] = <<>>
    /\ \E pg \in DOMAIN doc.pages : doc.pages[pg] # <<>>
    /\ result.status = "ok"
    /\ result.items = <<>>

----------------------------------------------------------------------------
(* C17 -- Carried context does not leak.  Every page scan, and so every
   document's processing call, starts with an empty last-dated context and an
   empty candidate list; a candidate that adopts a date takes it from a line
   of its own page at most 3 lines back, never from an earlier page or an
   earlier document; and the items returned for a document are the same
   whether or not other documents were processed before it. *)
C17_NoLeak ==
    /\ (pc = "scan" /\ i = 0) => (LastDated = NoLastDated /\ out = <<>>)
    /\ (pc = "page" /\ p = 0) => items = <<>>
    /\ \A k \in DOMAIN out :
          out[k].source \in {"text-line-nearby", "table-row-nearby"}
          => \E j \in 0..(out_line[k] - 1) :
                /\ out_line[k] - j <= 3
                /\ out[k].due_date_raw = extract_month_day_token(lines[j + 1])
                /\ out[k].due_date_iso = parse_to_iso(out[k].due_date_raw, year_hint)
    /\ (pc = "done" /\ run > 1 /\ doc = first.doc)
       => result.items = first.result.items

(* the third call repeats the first after a different document that ended on
   a dated line; page 1 of the document ends on a dated line and page 2 opens
   with a date-less assignment line, which is returned undated *)
C17_Witness ==
    /\ pc = "done"
    /\ run = 3
    /\ doc = first.doc
    /\ first.others = 1
    /\ Len(doc.pages) = 2
    /\ doc.pages[1] # <<>> /\ CarriesDate(doc.pages[1][Len(doc.pages[1])])
    /\ doc.pages[2] # <<>>
    /\ line_is_assignmentish(doc.pages[2][1]) /\ ~CarriesDate(doc.pages[2][1])
    /\ \E r \in Range(result.items) :
          /\ r.page = 2
          /\ r.title = doc.pages[2][1]
          /\ r.source = "text-line-undated"

----------------------------------------------------------------------------
(* _scan_page has returned for the page held in lines *)
PageScanned == pc \in {"page", "sort", "done"} /\ p >= 1

(* C18 -- Policy lines.  Every line of a page that is assignment-like and
   holds a generic due phrase (due on, due by, will be due) makes the page
   scan emit a candidate with origin policy-line, the line as title and an
   empty due_date_raw and due_date_iso, also when the line itself or a nearby
   line carries a date; every policy-line item has both fields empty. *)
C18_PolicyLines ==
    /\ PageScanned
       => \A ix \in 0..(Len(lines) - 1) :
             (line_is_assignmentish(lines[ix + 1]) /\ HasDuePhrase(lines[ix + 1]))
             => \E k \in DOMAIN out :
                   /\ out_line[k] = ix
                   /\ out[k].title = lines[ix + 1]
                   /\ out[k].source = "policy-line"
                   /\ out[k].due_date_raw = <<>>
                   /\ out[k].due_date_iso = <<>>
    /\ \A it \in Range(out) \cup Range(items) :
          it.source = "policy-line"
          => (it.due_date_raw = <<>> /\ it.due_date_iso = <<>>)

(* a policy line that carries a date of its own: the page scan returns its
   dated text-line candidate and its empty policy-line candidate *)
C18_Witness ==
    /\ PageScanned
    /\ \E k1, k2 \in DOMAIN out :
          /\ out_line[k1] = out_line[k2]
          /\ out[k1].source = "text-line"
          /\ Truthy(out[k1].due_date_iso)
          /\ out[k2].source = "policy-line"
          /\ out[k2].due_date_iso = <<>>
          /\ out[k2] \in Range(items)

----------------------------------------------------------------------------
(* the document is one page of one line *)
SingleLineDoc == Len(doc.pages) = 1 /\ Len(doc.pages[1]) = 1

TheLine == doc.pages[1][1]

(* the number of date tokens of a line *)
DateTokenCount(ln) ==
    Cardinality({k \in 1..(Len(ln) - 1) : IsMonthWord(ln[k]) /\ IsDayWord(ln[k + 1])})
    + Cardinality({k \in DOMAIN ln : IsNumericWord(ln[k])})

(* one date token, which names a calendar day, and one assignment phrase *)
OneDateOnePhrase(ln) ==
    /\ DateTokenCount(ln) = 1
    /\ Cardinality({k \in DOMAIN ln : IsAssignmentWord(ln[k])}) = 1
    /\ Truthy(parse_to_iso(extract_month_day_token(ln), year_hint))

(* the returned list is one item that carries the date of the line *)
OneItemOfTheLine ==
    /\ Len(result.items) = 1
    /\ result.items[1].due_date_raw = extract_month_day_token(TheLine)
    /\ result.items[1].due_date_iso =
          parse_to_iso(extract_month_day_token(TheLine), year_hint)
    /\ result.items[1].due_date_iso[1] =
          (IF year_hint # 0 THEN year_hint ELSE CurrentYear)

HasBar(ln) == \E k \in DOMAIN ln : ln[k] = "|"

(* C19 -- One line, one item, as claimed.  A document of a single line that
   holds one date token and one assignment phrase returns exactly one item,
   whose due_date_raw is the token and whose due_date_iso is that date in the
   hint year. *)
C19_AsClaimed ==
    (pc = "done" /\ SingleLineDoc /\ OneDateOnePhrase(TheLine))
    => OneItemOfTheLine

(* C19 -- One line, one item, amended.  A document of a single line that
   holds one date token and one assignment phrase, no "|" and no generic due
   phrase, returns exactly one item, whose due_date_raw is the token and
   whose due_date_iso is that date in the hint year (the current year when
   there is no hint): the row-splitting pass does not emit the line again.
   With a "|" or a due phrase the line is emitted a second time, by the
   row-splitting pass or by the policy pass, and more than one item is
   returned. *)
C19_OneLineOneItem ==
    (pc = "done" /\ SingleLineDoc /\ OneDateOnePhrase(TheLine))
    => IF HasBar(TheLine) \/ HasDuePhrase(TheLine)
       THEN Len(result.items) > 1
       ELSE OneItemOfTheLine /\ result.items[1].source = "text-line"

(* the call has returned the one item of a single line without "|" *)
C19_Witness ==
    /\ pc = "done"
    /\ SingleLineDoc
    /\ OneDateOnePhrase(TheLine)
    /\ ~HasBar(TheLine) /\ ~HasDuePhrase(TheLine)
    /\ Len(raw_items) = 1
    /\ OneItemOfTheLine

----------------------------------------------------------------------------
(* C20 -- Page count, as claimed.  The result of extract_due_dates_from_pdf
   reports the page count of the document: total_pages equals the number of
   pages of the opened PDF, however many items were extracted. *)
C20_AsClaimed == pc = "done" => result.total_pages = Len(doc.pages)

----------------------------------------------------------------------------
(* confirmationEdits.py: the edit operations of the confirmation screen.
   Here an item is a dict of Python strings, so its fields are strings; a
   call either returns a list (status 200) or raises HTTPException(400). *)

MaxEditItems == 3    \* items of the list handed to an edit operation

EditKeys == {"title", "due_date_raw", "due_date_iso", "page", "source"}

(* str.strip() on the strings of the vocabulary *)
Strip(str) == CASE str = " HW1 " -> "HW1"
                [] str = " Quiz " -> "Quiz"
                [] str = " " -> ""
                [] OTHER -> str

(* ^\d{4}-\d{2}-\d{2}$ and datetime.strptime(date_str, '%Y-%m-%d') *)
validate_date_format(date_str) ==
    IF date_str = "" THEN TRUE
    ELSE date_str \in {"2025-09-15", "2025-10-02"}

clean_assignment_item(item) ==
    LET iso == Strip(item.due_date_iso)
        title == Strip(item.title)
    IN [title |-> IF title = "" THEN "Untitled Assignment" ELSE title,
        due_date_raw |-> Strip(item.due_date_raw),
        due_date_iso |-> IF iso # "" /\ ~validate_date_format(iso) THEN "" ELSE iso,
        page |-> item.page,
        source |-> Strip(item.source)]

(* items[:index] + items[index + 1:], index 0-based and inside the list *)
Splice(its, index) ==
    SubSeq(its, 1, index) \o SubSeq(its, index + 2, Len(its))

(* remove_item that tests only the lower end of the range *)
remove_item_NoUpperCheck(its, index) ==
    IF index < 0
    THEN [status |-> 400, items |-> <<>>, arg |-> its]
    ELSE [status |-> 200, items |-> Splice(its, index), arg |-> its]

(* lines 282-286; arg is the caller's list after the call *)
remove_item(its, index) ==
    IF index < 0 \/ index >= Len(its)
    THEN [status |-> 400, items |-> <<>>, arg |-> its]
    ELSE [status |-> 200, items |-> Splice(its, index), arg |-> its]

(* lines 320-326: the copy of the item with the provided known fields *)
ApplyFields(item, updated_fields) ==
    [k \in DOMAIN item |->
        IF k \in DOMAIN updated_fields /\ k \in EditKeys
        THEN updated_fields[k] ELSE item[k]]

(* lines 316-335; items.copy() leaves the caller's list as it was *)
update_item(its, index, updated_fields) ==
    IF index < 0 \/ index >= Len(its)
    THEN [status |-> 400, items |-> <<>>, arg |-> its]
    ELSE [status |-> 200,
          items |-> [its EXCEPT ![index + 1] =
                        clean_assignment_item(ApplyFields(its[index + 1], updated_fields))],
          arg |-> its]

EditItem(t, iso) ==
    [title |-> t, due_date_raw |-> "", due_date_iso |-> iso, page |-> 1,
     source |-> "text-line"]

EditItemPool ==
    { EditItem("HW1", "2025-09-15"), EditItem(" Quiz ", ""), EditItem("Essay", "2025-99-99") }

FieldInputs ==
    { [title |-> " HW1 "],
      [due_date_iso |-> "2025-99-99"],
      [title |-> " ", due_date_iso |-> "2025-10-02"],
      [notes |-> "x"] }

EditIndexes == (-1)..MaxEditItems

InitEdits ==
    /\ CoreIdle
    /\ ed_items \in SeqsUpTo(EditItemPool, MaxEditItems)
    /\ ed_op = NoEdit
    /\ ed_out = NoOutcome
    /\ RepairIdle
    /\ TableIdle
    /\ LateIdle

RemoveItem ==
    \E index \in EditIndexes :
        LET r == remove_item(ed_items, index)
        IN /\ ed_op' = [name |-> "remove_item", index |-> index, before |-> ed_items]
           /\ ed_out' = [status |-> r.status, items |-> r.items]
           /\ ed_items' = r.arg
           /\ UNCHANGED <<coreVars, lateVars, repairVars, tableVars>>

UpdateItem ==
    \E index \in EditIndexes : \E f \in FieldInputs :
        LET r == update_item(ed_items, index, f)
        IN /\ ed_op' = [name |-> "update_item", index |-> index, before |-> ed_items]
           /\ ed_out' = [status |-> r.status, items |-> r.items]
           /\ ed_items' = r.arg
           /\ UNCHANGED <<coreVars, lateVars, repairVars, tableVars>>

NextEdits == RemoveItem \/ UpdateItem

SpecEdits == InitEdits /\ [][NextEdits]_vars

(* C21 -- Edit operations reject bad indexes without effect.  remove_item and
   update_item called with an index < 0 or >= len(items) signal HTTP 400 and
   return nothing; with a valid index they return a list: remove_item the
   list without that one position, one shorter, update_item a list of the
   same length with every other position unchanged.  In both cases the list
   passed in is left as it was. *)
C21_EditsRejectBadIndex ==
    ed_op.name # ""
    => LET before == ed_op.before
           ix == ed_op.index
       IN /\ ed_items = before
          /\ IF ix < 0 \/ ix >= Len(before)
             THEN ed_out.status = 400 /\ ed_out.items = <<>>
             ELSE /\ ed_out.status = 200
                  /\ ed_op.name = "remove_item"
                     => /\ Len(ed_out.items) = Len(before) - 1
                        /\ \A k \in 1..ix : ed_out.items[k] = before[k]
                        /\ \A k \in (ix + 1)..Len(ed_out.items) :
                              ed_out.items[k] = before[k + 1]
                  /\ ed_op.name = "update_item"
                     => /\ Len(ed_out.items) = Len(before)
                        /\ \A k \in DOMAIN before :
                              k # ix + 1 => ed_out.items[k] = before[k]

(* an index equal to the length of a non-empty list was refused *)
C21_Witness ==
    /\ ed_op.name = "remove_item"
    /\ ed_op.before # <<>>
    /\ ed_op.index = Len(ed_op.before)
    /\ ed_out.status = 400
    /\ ed_items = ed_op.before

----------------------------------------------------------------------------
(* llm_repair.py: repair_due_items.  A JSON value is a record tagged by its
   type: str (with its text), num (a non-zero number), null, list (with its
   elements), obj (with its key set and the values of the keys used here).
   A response text is such a value, bare or inside a code fence, or a text
   without any bracket (garbage), or the empty text. *)

JStr(x) == [t |-> "str", s |-> x]

JNum == [t |-> "num"]

JNull == [t |-> "null"]

JNone == [t |-> "none"]

JList(elems) == [t |-> "list", elems |-> elems]

JObj(keys, title, raw, iso, its) ==
    [t |-> "obj", keys |-> keys, title |-> title, due_date_raw |-> raw,
     due_date_iso |-> iso, items |-> its]

ItemKeys == {"title", "due_date_raw", "due_date_iso"}

(* lines 10-26 *)
is_gemini_ready(env) ==
    IF ~env.key THEN [ok |-> FALSE, reason |-> "GEMINI_API_KEY is not set"]
    ELSE IF ~env.sdk
    THEN [ok |-> FALSE, reason |-> "google-generativeai not installed/usable"]
    ELSE IF env.model = "" THEN [ok |-> FALSE, reason |-> "GEMINI_MODEL is empty"]
    ELSE [ok |-> TRUE, reason |-> ""]

(* lines 33-35: the text inside the fence, or the text itself *)
strip_code_fences(text) == [fenced |-> FALSE, body |-> text.body]

(* lines 37-52: the text from the first "{" to the last "}", else from the
   first "[" to the last "]", else None.  In a list the braces are those of
   its first and of its last object: one object alone is cut out as it is,
   several give a text that is no JSON value. *)
first_json_block(text) ==
    LET b == text.body
    IN CASE b.t = "obj" -> b
         [] b.t = "list" ->
              LET objs == {k \in DOMAIN b.elems : b.elems[k].t = "obj"}
              IN IF objs = {} THEN b
                 ELSE IF Min(objs) = Max(objs) THEN b.elems[Min(objs)]
                 ELSE [t |-> "broken"]
         [] OTHER -> JNone

(* lines 54-58 *)
safe_load_json(blob) == IF blob.t \in {"obj", "list"} THEN blob ELSE JNone

(* the shape test without the test that "items" is a list *)
ExpectedShape_AnyItems(parsed) ==
    parsed.t = "obj" /\ "items" \in parsed.keys

(* line 153 *)
ExpectedShape(parsed) ==
    parsed.t = "obj" /\ "items" \in parsed.keys /\ parsed.items.t = "list"

(* it.get(k) or "" *)
FieldOrEmpty(it, k) ==
    IF k \in it.keys /\ it[k].t # "null" THEN it[k] ELSE JStr("")

(* .strip() of a number raises AttributeError *)
SanitizeRaises(elems) ==
    \E n \in DOMAIN elems :
        elems[n].t = "obj" /\ \E k \in ItemKeys : FieldOrEmpty(elems[n], k).t # "str"

(* lines 157-165; the [:300], [:120], [:20] cuts leave short strings whole *)
Sanitize(elems) ==
    LET dicts == SelectSeq(elems, LAMBDA e : e.t = "obj")
    IN [n \in DOMAIN dicts |->
          [title |-> Strip(FieldOrEmpty(dicts[n], "title").s),
           due_date_raw |-> Strip(FieldOrEmpty(dicts[n], "due_date_raw").s),
           due_date_iso |-> Strip(FieldOrEmpty(dicts[n], "due_date_iso").s)]]

(* for it in parsed["items"]: the elements of a list, the characters of a
   string (none of them a dict) *)
Iterate(v) == IF v.t = "list" THEN v.elems ELSE <<>>

(* seed_items or [] *)
SeedOrEmpty(seed) == IF seed.given THEN seed.items ELSE <<>>

Degraded(seed, why) == [items |-> SeedOrEmpty(seed), error |-> why, raised |-> FALSE]

(* lines 138-170: from raw_text to the returned dict *)
repair_from_text(raw, seed) ==
    IF raw.body.t = "empty"
    THEN Degraded(seed, "No text in LLM response")
    ELSE LET cleaned == strip_code_fences(raw)
             block == first_json_block(cleaned)
             blob == IF block.t # "none" THEN block ELSE cleaned.body
             loaded == safe_load_json(blob)
             parsed == IF loaded.t = "list"
                       THEN JObj({"items"}, JNull, JNull, JNull, loaded)
                       ELSE loaded
         IN IF ~ExpectedShape(parsed)
            THEN Degraded(seed, "LLM did not return expected JSON object")
            ELSE IF SanitizeRaises(Iterate(parsed.items))
            THEN Degraded(seed, "LLM error")
            ELSE [items |-> Sanitize(Iterate(parsed.items)), error |-> NoneStr,
                  raised |-> FALSE]

GoodItem == JObj(ItemKeys, JStr(" HW1 "), JStr("Sep 15"), JStr("2025-09-15"), JNull)

PartialItem == JObj({"title"}, JStr("Essay"), JNull, JNull, JNull)

BadItem == JObj(ItemKeys, JNum, JStr("Sep 15"), JStr(""), JNull)

ResponseBodies ==
    { [t |-> "empty"],
      [t |-> "garbage"],
      JObj({"items"}, JNull, JNull, JNull, JList(<<>>)),
      JObj({"items"}, JNull, JNull, JNull, JList(<<GoodItem>>)),
      JObj({"items"}, JNull, JNull, JNull, JList(<<GoodItem, JStr("x"), PartialItem>>)),
      JObj({"items"}, JNull, JNull, JNull, JList(<<BadItem>>)),
      JObj({"items"}, JNull, JNull, JNull, JStr("none")),
      JObj({"result"}, JNull, JNull, JNull, JNull),
      JList(<<>>),
      JList(<<JStr("HW1")>>),
      JList(<<GoodItem>>),
      JList(<<GoodItem, PartialItem>>) }

Responses ==
    { [fenced |-> f, body |-> b] : f \in BOOLEAN, b \in ResponseBodies }
    \ { [fenced |-> TRUE, body |-> [t |-> "empty"]] }

SeedInputs ==
    { [given |-> FALSE, items |-> <<>>],
      [given |-> TRUE, items |-> <<>>],
      [given |-> TRUE, items |-> <<EditItem("HW1", "2025-09-15")>>],
      [given |-> TRUE, items |-> <<EditItem("HW1", ""), EditItem("Essay", "")>>] }

InitRepair ==
    /\ CoreIdle
    /\ EditsIdle
    /\ rp_pc = "start"
    /\ rp_env \in [key : BOOLEAN, sdk : BOOLEAN, model : {"unset", "", "gemini-2.5-flash"}]
    /\ rp_seed \in SeedInputs
    /\ rp_call = ""
    /\ rp_raw = NoText
    /\ rp_ret = NoReturn
    /\ TableIdle
    /\ LateIdle

(* lines 68-70 *)
RepairReady ==
    /\ rp_pc = "start"
    /\ IF is_gemini_ready(rp_env).ok
       THEN rp_pc' = "call" /\ rp_ret' = rp_ret
       ELSE /\ rp_pc' = "done"
            /\ rp_ret' = Degraded(rp_seed, is_gemini_ready(rp_env).reason)
    /\ UNCHANGED <<coreVars, lateVars, editVars, tableVars, rp_env, rp_seed, rp_call, rp_raw>>

(* lines 72-136 and 169-170: configure or generate_content raises, or the
   response arrives and its text is read *)
RepairCall ==
    /\ rp_pc = "call"
    /\ \/ /\ rp_call' = "raised"
          /\ rp_ret' = Degraded(rp_seed, "LLM error")
          /\ rp_pc' = "done"
          /\ rp_raw' = rp_raw
       \/ \E text \in Responses :
             /\ rp_call' = "answered"
             /\ rp_raw' = text
             /\ rp_pc' = "parse"
             /\ rp_ret' = rp_ret
    /\ UNCHANGED <<coreVars, lateVars, editVars, tableVars, rp_env, rp_seed>>

(* lines 138-170 *)
RepairParse ==
    /\ rp_pc = "parse"
    /\ rp_ret' = repair_from_text(rp_raw, rp_seed)
    /\ rp_pc' = "done"
    /\ UNCHANGED <<coreVars, lateVars, editVars, tableVars, rp_env, rp_seed, rp_call, rp_raw>>

NextRepair == RepairReady \/ RepairCall \/ RepairParse

SpecRepair == InitRepair /\ [][NextRepair]_vars

(* what the claim calls the failures of a call *)
NotConfigured == ~rp_env.key \/ ~rp_env.sdk \/ rp_env.model = ""

ResponseShapeOK ==
    \/ rp_raw.body.t = "list"
    \/ /\ rp_raw.body.t = "obj"
       /\ "items" \in rp_raw.body.keys
       /\ rp_raw.body.items.t = "list"

(* C22 -- LLM repair degrades to the seed list.  repair_due_items never
   raises; whenever the model is not configured, the call fails, the response
   is empty or the response is not of the expected JSON shape, it returns the
   caller's seed items unchanged with a non-empty error string; every error
   return carries the seed items; and error is None only when the items were
   built from the parsed response of a call that was answered. *)
C22_DegradesToSeed ==
    rp_pc = "done"
    => /\ ~rp_ret.raised
       /\ (\/ NotConfigured
           \/ rp_call = "raised"
           \/ rp_call = "answered" /\ rp_raw.body.t = "empty"
           \/ rp_call = "answered" /\ ~ResponseShapeOK)
          => rp_ret.error # NoneStr
       /\ rp_ret.error # NoneStr
          => (rp_ret.error # "" /\ rp_ret.items = SeedOrEmpty(rp_seed))
       /\ rp_ret.error = NoneStr
          => /\ ~NotConfigured
             /\ rp_call = "answered"
             /\ ResponseShapeOK
             /\ \A n \in DOMAIN rp_ret.items :
                   DOMAIN rp_ret.items[n] = ItemKeys

(* the call was answered with JSON of another shape and the two seed items
   came back with an error *)
C22_Witness ==
    /\ rp_pc = "done"
    /\ rp_call = "answered"
    /\ rp_raw.body.t = "obj"
    /\ ~ResponseShapeOK
    /\ Len(rp_seed.items) = 2
    /\ rp_ret.items = rp_seed.items
    /\ rp_ret.error = "LLM did not return expected JSON object"

----------------------------------------------------------------------------
(* the candidates of pass 1 for the whole line ix of the scanned page *)
LineCandidates(ix) ==
    {k \in DOMAIN out :
        /\ out_line[k] = ix
        /\ out[k].title = lines[ix + 1]
        /\ out[k].source \in {"text-line", "text-line-nearby", "text-line-undated"}}

(* C23 -- Same-line date takes precedence.  When an assignment-like line
   carries a date token of its own, the one candidate pass 1 creates for the
   line has origin text-line and carries that token and its normalization,
   never the date of an earlier line, also when an earlier dated line lies
   within the 3-line window; right after a line whose date normalized, the
   last-dated context holds this line's token, ISO date and index. *)
C23_SameLineFirst ==
    /\ \A ix \in 0..(i - 1) :
          (line_is_assignmentish(lines[ix + 1]) /\ CarriesDate(lines[ix + 1]))
          => /\ Cardinality(LineCandidates(ix)) = 1
             /\ \A k \in LineCandidates(ix) :
                   LET own == extract_month_day_token(lines[ix + 1])
                   IN /\ out[k].source = "text-line"
                      /\ out[k].due_date_raw = own
                      /\ out[k].due_date_iso =
                            (IF Resolvable(ix) THEN parse_to_iso(own, year_hint)
                             ELSE <<>>)
    /\ (pc = "scan" /\ i >= 1 /\ Resolvable(i - 1))
       => /\ last_dated_line_ix = i - 1
          /\ last_dated_token = extract_month_day_token(lines[i])
          /\ last_dated_iso = parse_to_iso(last_dated_token, year_hint)

(* an assignment line with its own date, one line after a line with another
   date: its candidate carries its own date and the context points at it *)
C23_Witness ==
    /\ pc = "scan"
    /\ i >= 2
    /\ line_is_assignmentish(lines[i]) /\ Resolvable(i - 1)
    /\ Resolvable(i - 2)
    /\ extract_month_day_token(lines[i - 1]) # extract_month_day_token(lines[i])
    /\ \E k \in LineCandidates(i - 1) :
          out[k].due_date_raw = extract_month_day_token(lines[i])
    /\ last_dated_line_ix = i - 1

----------------------------------------------------------------------------
(* src/main.py: the table pass of extract_syllabus_assignments, for one row.
   A cell is the sequence of its words, <<>> an empty cell; a date text is
   the matched words as written; a month that is None is "". *)

MaxCells == 3        \* cells of a table row

(* 'quiz', 'due', ... in cell_text.lower() *)
MainHasKeyword(cell) == \E k \in DOMAIN cell : LowerWord(cell[k]) \in {"quiz", "due"}

(* line 66: the first month name of the cell *)
MainMonthOf(cell) ==
    LET ks == {k \in DOMAIN cell : IsMonthWord(cell[k])}
    IN IF ks = {} THEN "" ELSE cell[Min(ks)]

(* line 74: month, spaces, day with or without ordinal suffix; group(0) *)
MainFullDate(cell) ==
    LET ks == {k \in 1..(Len(cell) - 1) : IsMonthWord(cell[k]) /\ IsDayWord(cell[k + 1])}
    IN IF ks = {} THEN <<>> ELSE <<cell[Min(ks)], cell[Min(ks) + 1]>>

(* line 80: a day needs its ordinal suffix to count as a date *)
HasOrdinal(w) == w \in {"4th"}

MainDayOnly(cell) ==
    LET ks == {k \in DOMAIN cell : HasOrdinal(cell[k])}
    IN IF ks = {} THEN <<>> ELSE <<cell[Min(ks)]>>

(* any(month in date_str for month in ['Jan', ...]) *)
HasMonthName(date) == \E k \in DOMAIN date : IsMonthWord(date[k])

(* re.search(r'\d+', date).group(0) of a date without month name *)
DayNum(date) == DayDigits(date[1])

(* lines 113-124 and 129-138: the date text made of one row date *)
QualifiedDate(date, month) ==
    IF HasMonthName(date) THEN date
    ELSE IF month # "" THEN <<month, DayNum(date)>>
    ELSE date

(* lines 107-139: the cell's own date, else the first entry of row_dates (the
   loop over the other cells ends at its first turn), else None *)
FinalDate(idx, dates, month) ==
    IF idx \in DOMAIN dates THEN QualifiedDate(dates[idx], month)
    ELSE IF DOMAIN dates = {} THEN <<>>
    ELSE QualifiedDate(dates[Min(DOMAIN dates)], month)

CellPool ==
    { <<>>, <<"4th">>, <<"Oct", "2">>, <<"Quiz">>, <<"Notes">>, <<"Quiz", "Sep", "1">> }

InitTable ==
    /\ CoreIdle
    /\ EditsIdle
    /\ RepairIdle
    /\ tb_pc = "first"
    /\ row \in SeqsUpTo(CellPool, MaxCells) \ {<<>>}
    /\ cell_idx = 0
    /\ row_month = ""
    /\ row_dates = <<>>
    /\ current_month \in {"", "Sep"}
    /\ all_assignments = <<>>
    /\ LateIdle

(* lines 59-83: one cell of the first pass *)
TableFirstPass ==
    /\ tb_pc = "first"
    /\ cell_idx < Len(row)
    /\ LET cell == row[cell_idx + 1]
           found == IF MainFullDate(cell) # <<>> THEN MainFullDate(cell)
                    ELSE MainDayOnly(cell)
       IN /\ row_month' = IF MainMonthOf(cell) # "" THEN MainMonthOf(cell) ELSE row_month
          /\ current_month' = IF MainMonthOf(cell) # "" THEN MainMonthOf(cell)
                               ELSE current_month
          /\ row_dates' =
                IF found = <<>> THEN row_dates
                ELSE [k \in DOMAIN row_dates \cup {cell_idx} |->
                         IF k = cell_idx THEN found ELSE row_dates[k]]
    /\ cell_idx' = cell_idx + 1
    /\ UNCHANGED <<coreVars, lateVars, editVars, repairVars, tb_pc, row, all_assignments>>

(* lines 85-88: fall back on the carried month *)
TableMonthContext ==
    /\ tb_pc = "first"
    /\ cell_idx = Len(row)
    /\ row_month' = IF row_month = "" /\ current_month # "" THEN current_month
                     ELSE row_month
    /\ tb_pc' = "second"
    /\ cell_idx' = 0
    /\ UNCHANGED <<coreVars, lateVars, editVars, repairVars, row, row_dates, current_month,
                   all_assignments>>

(* lines 94-150: one cell of the second pass *)
TableSecondPass ==
    /\ tb_pc = "second"
    /\ cell_idx < Len(row)
    /\ LET cell == row[cell_idx + 1]
           final_date == FinalDate(cell_idx, row_dates, row_month)
       IN all_assignments' =
             IF cell # <<>> /\ MainHasKeyword(cell) /\ final_date # <<>>
             THEN Append(all_assignments,
                         [date |-> final_date, description |-> cell,
                          page |-> 1, source |-> "table"])
             ELSE all_assignments
    /\ cell_idx' = cell_idx + 1
    /\ tb_pc' = IF cell_idx + 1 = Len(row) THEN "done" ELSE "second"
    /\ UNCHANGED <<coreVars, lateVars, editVars, repairVars, row, row_month, row_dates,
                   current_month>>

NextTable == TableFirstPass \/ TableMonthContext \/ TableSecondPass

SpecTable == InitTable /\ [][NextTable]_vars

(* C24 -- Month preference among other cells, as claimed.  When an
   assignment-like cell has no date of its own and two other cells of the
   row carry dates, one with a month name and one a day alone, the date of
   the entry added for the assignment cell is the one that carries the month
   name, whichever of the two cells comes first. *)
C24_AsClaimed ==
    tb_pc = "done"
    => \A c \in 0..(Len(row) - 1) :
          (/\ MainHasKeyword(row[c + 1])
           /\ c \notin DOMAIN row_dates
           /\ Cardinality(DOMAIN row_dates) = 2
           /\ \E a, b \in DOMAIN row_dates :
                 HasMonthName(row_dates[a]) /\ ~HasMonthName(row_dates[b]))
          => \E e \in Range(all_assignments) :
                /\ e.description = row[c + 1]
                /\ HasMonthName(e.date)
                /\ e.date \in Range(row_dates)

(* C27 -- Policy-line items after deduplication.  In the returned items, an
   item with origin policy-line is present only if a first-pass candidate of
   the same line (same title, same page) is dated; a policy line whose own
   first-pass candidate is undated has the same (title, empty date, page)
   key as its policy-line candidate, and the first-pass candidate is the one
   kept: no policy-line item with that key is returned. *)
C27_PolicyAfterDedupe ==
    pc = "done" =>
        /\ \A it \in Range(result.items) :
              it.source = "policy-line"
              => \E c \in Range(raw_items) :
                    /\ c.source \in {"text-line", "text-line-nearby"}
                    /\ c.title = it.title
                    /\ c.page = it.page
                    /\ Truthy(c.due_date_iso)
        /\ \A c \in Range(raw_items) :
              (/\ c.source \in {"text-line", "text-line-undated"}
               /\ c.due_date_iso = <<>>
               /\ IsPolicyLine(c.title))
              => /\ \E d \in Range(raw_items) :
                       /\ d.source = "policy-line"
                       /\ <<Lower(d.title), d.due_date_iso, d.page>>
                            = <<Lower(c.title), c.due_date_iso, c.page>>
                 /\ \A it \in Range(result.items) :
                       (Lower(it.title) = Lower(c.title) /\ it.page = c.page
                        /\ it.due_date_iso = <<>>)
                       => it.source # "policy-line"
                 /\ \E it \in Range(result.items) :
                       /\ Lower(it.title) = Lower(c.title)
                       /\ it.page = c.page
                       /\ it.due_date_iso = <<>>

(* a run that returns the policy-line item of a dated line and drops the
   policy-line candidate of an undated line *)
C27_Witness ==
    /\ pc = "done"
    /\ \E it \in Range(result.items) : it.source = "policy-line"
    /\ \E c \in Range(raw_items) :
          /\ c.source = "policy-line"
          /\ \A it \in Range(result.items) :
                it.source = "policy-line"
                => (it.title # c.title \/ it.page # c.page)

(* the token of line ix (0-based) of the page normalizes under the hint *)
LineNormalizes(ix) ==
    /\ extract_month_day_token(lines[ix + 1]) # <<>>
    /\ Truthy(parse_to_iso(extract_month_day_token(lines[ix + 1]), year_hint))

(* C28 -- Last-dated context.  During the scan of a page the triple (last
   date token, last ISO date, last dated line index) changes only in the
   step of a line whose token normalizes to a non-empty ISO date, and then
   all three are set together to that token, its date and the line's index;
   the step of a line with no token or with a token that does not normalize
   leaves all three as they were, so an assignment line without a token that
   comes at most 3 lines after the last line with a normalized date adopts
   that date, whatever the lines in between hold. *)
C28_ContextOnlyOnDate ==
    [][ pc = "scan" =>
          IF i < Len(lines) /\ LineNormalizes(i)
          THEN /\ last_dated_token' = extract_month_day_token(lines[i + 1])
               /\ last_dated_iso' = parse_to_iso(last_dated_token', year_hint)
               /\ last_dated_line_ix' = i
          ELSE /\ UNCHANGED <<last_dated_token, last_dated_iso, last_dated_line_ix>>
               /\ (/\ i < Len(lines)
                   /\ line_is_assignmentish(lines[i + 1])
                   /\ extract_month_day_token(lines[i + 1]) = <<>>
                   /\ \E j \in 0..(i - 1) : i - j <= 3 /\ LineNormalizes(j))
                  => \E k \in (Len(out) + 1)..Len(out') :
                        /\ out'[k].source = "text-line-nearby"
                        /\ out'[k].title = lines[i + 1]
                        /\ out'[k].due_date_raw = last_dated_token
                        /\ out'[k].due_date_iso = last_dated_iso
                        /\ LineNormalizes(last_dated_line_ix)
                        /\ \A j \in 0..(i - 1) :
                              LineNormalizes(j) => j <= last_dated_line_ix
      ]_vars

(* a line whose token does not normalize stands between a dated line and an
   assignment line, which has adopted the date of the dated line *)
C28_Witness ==
    /\ pc = "scan"
    /\ i >= 3
    /\ last_dated_line_ix >= 0
    /\ last_dated_line_ix < i - 2
    /\ extract_month_day_token(lines[i - 1]) # <<>>
    /\ ~LineNormalizes(i - 2)
    /\ extract_month_day_token(lines[i]) = <<>>
    /\ \E k \in DOMAIN out :
          /\ out_line[k] = i - 1
          /\ out[k].source = "text-line-nearby"
          /\ out[k].due_date_iso = last_dated_iso

(* the date tokens that stand as evidence for a candidate of line ix: the
   token of the line, of a cell of its row, or of a line at most 3 earlier *)
EvidenceTokens(ix) ==
    {extract_month_day_token(lines[ix + 1])}
    \cup {extract_month_day_token(c) : c \in Range(split_schedule_row(lines[ix + 1]))}
    \cup {extract_month_day_token(lines[j + 1]) :
              j \in {j \in 0..(ix - 1) : ix - j <= 3}}

(* C29 -- Dated items carry their textual evidence.  Every candidate of the
   page scan with a non-empty due_date_iso has a non-empty due_date_raw, and
   its due_date_raw is a date token found on the page (on the candidate's
   own line, in a cell of its row, or on a line at most 3 lines earlier)
   whose normalization under the page's year hint is its due_date_iso. *)
C29_DatedHasEvidence ==
    \A k \in DOMAIN out :
        out[k].due_date_iso # <<>>
        => /\ out[k].due_date_raw # <<>>
           /\ out[k].due_date_raw \in EvidenceTokens(out_line[k])
           /\ out[k].due_date_iso = parse_to_iso(out[k].due_date_raw, year_hint)
           /\ Truthy(out[k].due_date_iso)

(* the scan of a page has emitted a candidate dated by its own line, one
   dated by a cell of its row, and one dated by an earlier line *)
C29_Witness ==
    /\ \E k \in DOMAIN out : out[k].source = "text-line" /\ Truthy(out[k].due_date_iso)
    /\ \E k \in DOMAIN out : out[k].source = "table-row"
    /\ \E k \in DOMAIN out :
          /\ out[k].source \in {"text-line-nearby", "table-row-nearby"}
          /\ extract_month_day_token(lines[out_line[k] + 1]) = <<>>

(***************************************************************************)
(* The text helpers of extractor_core.py on raw lines.  A raw line has not  *)
(* been through _normalize_spaces: it may hold runs of spaces (Gap), bars,  *)
(* weekday names and dates in any order.                                    *)
(***************************************************************************)
MaxWords == 5

TextWords == {"Mon", "Sep", "Oct", "1", "9/15", "|", Gap}

InitText ==
    /\ CoreIdle
    /\ EditsIdle
    /\ RepairIdle
    /\ TableIdle
    /\ UploadIdle
    /\ tx_pc = "token"
    /\ tx_line \in SeqsUpTo(TextWords, MaxWords)
    /\ tx_token = <<>>
    /\ tx_parts = <<>>

(* _extract_month_day_token(line) *)
TextToken ==
    /\ tx_pc = "token"
    /\ tx_token' = extract_month_day_token(tx_line)
    /\ tx_pc' = "split"
    /\ UNCHANGED <<coreVars, editVars, repairVars, tableVars, uploadVars,
                   tx_line, tx_parts>>

(* _split_schedule_row(line) *)
TextSplit ==
    /\ tx_pc = "split"
    /\ tx_parts' = split_schedule_row(tx_line)
    /\ tx_pc' = "done"
    /\ UNCHANGED <<coreVars, editVars, repairVars, tableVars, uploadVars,
                   tx_line, tx_token>>

NextText == TextToken \/ TextSplit

SpecText == InitText /\ [][NextText]_vars

(* WEEKDAY_RE, line 60: never consulted by the recognizer *)
IsWeekdayWord(w) == w \in {"Mon"}

MonthDayPairs(s) == {k \in DOMAIN s : MonthDayAt(s, k)}

WeekdayPairs(s) ==
    {k \in DOMAIN s : IsWeekdayWord(s[k]) /\ WordAfter(s, k) <= Len(s)
                                          /\ MonthDayAt(s, WordAfter(s, k))}

NumericWords(s) == {k \in DOMAIN s : IsNumericWord(s[k])}

PairToken(s, k) == <<s[k], DayDigits(s[WordAfter(s, k)])>>

(* C25 as stated: three classes in the order weekday+month+day, month+day,
   numeric; the leftmost match of the first class that matches anywhere is
   the token (the weekday itself is not part of it) *)
C25_AsClaimed ==
    tx_pc # "token" =>
        tx_token =
            IF WeekdayPairs(tx_line) # {}
            THEN PairToken(tx_line, WordAfter(tx_line, Min(WeekdayPairs(tx_line))))
            ELSE IF MonthDayPairs(tx_line) # {}
            THEN PairToken(tx_line, Min(MonthDayPairs(tx_line)))
            ELSE IF NumericWords(tx_line) # {}
            THEN <<NumericToken(tx_line[Min(NumericWords(tx_line))])>>
            ELSE <<>>

(* C25, amended: the recognizer returns at most one token from two classes.
   When a month name followed by a day occurs anywhere in the line, the
   token is the leftmost such pair, whether or not a weekday precedes it or
   a later pair, and whether or not a numeric date stands to its left; a
   numeric M/D is returned, the leftmost one, only when the line has no such
   pair; a line with neither yields no token. *)
C25_TwoClasses ==
    tx_pc # "token" =>
        /\ (tx_token = <<>>) <=>
               (MonthDayPairs(tx_line) = {} /\ NumericWords(tx_line) = {})
        /\ MonthDayPairs(tx_line) # {} =>
               tx_token = PairToken(tx_line, Min(MonthDayPairs(tx_line)))
        /\ (MonthDayPairs(tx_line) = {} /\ NumericWords(tx_line) # {}) =>
               tx_token = <<NumericToken(tx_line[Min(NumericWords(tx_line))])>>

(* a numeric date stands left of a month+day pair, and the pair is returned *)
C25_Witness ==
    /\ tx_pc # "token"
    /\ MonthDayPairs(tx_line) # {}
    /\ NumericWords(tx_line) # {}
    /\ Min(NumericWords(tx_line)) < Min(MonthDayPairs(tx_line))
    /\ Len(tx_token) = 2

(* the non-empty stripped segments of a line, by bar or else by run of spaces *)
Segments(line) ==
    IF \E k \in DOMAIN line : line[k] = "|"
    THEN DropEmpty(StripParts(SplitOnBar(line, <<>>)))
    ELSE DropEmpty(StripParts(SplitOnGap(line, <<>>)))

(* C26 as stated: the result of the row split is the segments when there are
   two or more, and otherwise the one-element sequence holding the whole
   line, with a bar as without; never empty for a non-empty line *)
C26_AsClaimed ==
    tx_pc = "done" =>
        /\ tx_parts = IF Len(Segments(tx_line)) <= 1 THEN <<tx_line>>
                      ELSE Segments(tx_line)
        /\ tx_line # <<>> => tx_parts # <<>>

(***************************************************************************)
(* app.py, POST /assignments/pdf without Supabase: requests handled by one  *)
(* process.  The handler is a coroutine on the event loop; its only         *)
(* suspension point is "await file.read()", so requests interleave there    *)
(* and the rest of a handler runs without another request in between.       *)
(***************************************************************************)
MaxUploads == 3

Requests == 1..MaxUploads

Contents == {"a", "b"}

(* hashlib.sha256(data).hexdigest(): distinct contents, distinct digests *)
Sha256(data) == CASE data = "a" -> "ca97" [] data = "b" -> "3e23" [] OTHER -> "e3b0"

(* how the rest of the handler ends once the hash is new: "ok" for _ok(...),
   "error" for an exception caught at lines 415-416 *)
Outcomes == {"ok", "error"}

InitUpload ==
    /\ CoreIdle
    /\ EditsIdle
    /\ RepairIdle
    /\ TableIdle
    /\ TextIdle
    /\ seen_pdf_hashes = {}
    /\ up_pc = [r \in Requests |-> "new"]
    /\ up_data \in [Requests -> Contents]
    /\ up_resp = [r \in Requests |-> ""]
    /\ up_extracted = <<>>

(* _seen_pdf_hashes that remembers a hash only when the request succeeded *)
SeenAfter_OnSuccess(seen, file_hash, outcome) ==
    IF outcome = "ok" THEN seen \cup {file_hash} ELSE seen

(* line 353, reached before extraction starts at line 356 *)
SeenAfter(seen, file_hash, outcome) == seen \cup {file_hash}

(* the request arrives and the handler suspends in await file.read() *)
UploadArrive(r) ==
    /\ up_pc[r] = "new"
    /\ up_pc' = [up_pc EXCEPT ![r] = "read"]
    /\ UNCHANGED <<coreVars, editVars, repairVars, tableVars, textVars,
                   seen_pdf_hashes, up_data, up_resp, up_extracted>>

(* lines 329-416 after the read: hash, duplicate check, extraction, response *)
UploadHandle(r) ==
    /\ up_pc[r] = "read"
    /\ LET file_hash == Sha256(up_data[r])
       IN IF file_hash \in seen_pdf_hashes
          THEN /\ up_resp' = [up_resp EXCEPT ![r] = "409"]
               /\ UNCHANGED <<seen_pdf_hashes, up_extracted>>
          ELSE \E outcome \in Outcomes :
                  /\ seen_pdf_hashes' = SeenAfter(seen_pdf_hashes, file_hash, outcome)
                  /\ up_extracted' = Append(up_extracted,
                                            [req |-> r, hash |-> file_hash])
                  /\ up_resp' = [up_resp EXCEPT ![r] = outcome]
    /\ up_pc' = [up_pc EXCEPT ![r] = "done"]
    /\ UNCHANGED <<coreVars, editVars, repairVars, tableVars, textVars, up_data>>

NextUpload == \E r \in Requests : UploadArrive(r) \/ UploadHandle(r)

SpecUpload == InitUpload /\ [][NextUpload]_vars

ExtractedHashes == {up_extracted[k].hash : k \in DOMAIN up_extracted}

(* what C30 says of a state *)
UploadGuard ==
    /\ \A j, k \in DOMAIN up_extracted :
          up_extracted[j].hash = up_extracted[k].hash => j = k
    /\ ExtractedHashes \subseteq seen_pdf_hashes
    /\ \A r \in DOMAIN up_pc :
          up_pc[r] = "done"
          => IF \E k \in DOMAIN up_extracted : up_extracted[k].req = r
             THEN up_resp[r] \in Outcomes
             ELSE up_resp[r] = "409" /\ Sha256(up_data[r]) \in ExtractedHashes

(* C30 -- Duplicate-upload guard without a database.  Whatever the order in
   which the requests arrive and their reads complete, each file content is
   handed to the extractor at most once; its hash is in the seen set from
   the moment extraction starts; every other handled upload of the same
   bytes is answered 409, also when the request that was extracted ended in
   an error response; and no step takes a hash out of the seen set. *)
C30_UploadGuard ==
    [][UploadGuard' /\ seen_pdf_hashes \subseteq seen_pdf_hashes']_vars

(* the upload that was extracted ended in an error response, and a later
   upload of the same bytes was answered 409 *)
C30_Witness ==
    \E r1, r2 \in DOMAIN up_pc :
        /\ r1 # r2
        /\ up_data[r1] = up_data[r2]
        /\ up_resp[r1] = "error"
        /\ up_resp[r2] = "409"
====
